---------------------------- MODULE Spec2Model ----------------------------
(***************************************************************************)
(* tui-jot: the text editing engine (ui/viewer_state.rs) driven by the key *)
(* handler (input/handler.rs).                                             *)
(*                                                                         *)
(* A character is a one-character string, a text a sequence of characters. *)
(* Rope indices are 0-based as in the source; a text t holds the character *)
(* with rope index i at t[i + 1].  Option<T> is a sequence of length <= 1: *)
(* None is << >> and Some(x) is << x >>.                                   *)
(***************************************************************************)
EXTENDS Integers, Sequences, FiniteSets, TLC

VARIABLES
    vs,       \* app.viewer_state: the ViewerState record
    vault,    \* app.vault.notes: path -> Note
    tree,     \* app.vault.tree: the entries of the file browser
    index,    \* app.index: the Index built from the vault
    disk,     \* the files under the vault root: path -> content
    focus,    \* app.focus: the pane the keys go to
    arg,      \* the arguments of a library call under test
    result,   \* what that call returned
    last,     \* the operation that produced this state
    steps     \* operations left in this run

vars == << vs, vault, tree, index, disk, focus, arg, result, last, steps >>

----------------------------------------------------------------------------
(* Bounds *)

MaxSteps == 6
MaxKeys == 7
MaxReadOps == 6
MaxSelectOps == 8
MaxQueries == 2
MaxVaultOps == 2
MaxCalls == 1
MaxMotions == 5
MaxSaveOps == 5
MaxBackspaceKeys == 11
MaxToggles == 3
MaxLookups == 2
MaxFocusKeys == 5
MaxLinkTokens == 5
MaxCompleteKeys == 5
MaxNoteLen == 3
MaxTokens == 5
MaxQueryLen == 3
MaxTextLen == 4
MaxMatches == 10
\* ViewerState::new sets max_undo_history to 100 (viewer_state.rs 113); the
\* model runs the same code with a shorter history.
max_undo_history == 2

----------------------------------------------------------------------------
(* Characters *)

NL == "\n"

TypedChars == {"a", "[", "]"}

PasteTexts == { <<"b">>, <<"é", NL>> }

None == << >>
Some(x) == << x >>
IsSome(o) == o # << >>
Unwrap(o) == o[1]

Min(a, b) == IF a < b THEN a ELSE b

len_utf8(c) == IF c \in {"é", "É"} THEN 2 ELSE 1

RECURSIVE str_len(_)
str_len(t) == IF t = << >> THEN 0 ELSE len_utf8(Head(t)) + str_len(Tail(t))

is_whitespace(c) == c \in {" ", NL}

\* The back-quote of the source's list has no TLA+ string; no text here holds it.
is_word_separator(ch) ==
    ch \in {".", ",", ";", ":", "!", "?", "(", ")", "[", "]", "{", "}",
            "\"", "'", "/", "\\", "-", "_"}

to_lowercase_char(c) ==
    IF c = "A" THEN "a" ELSE IF c = "W" THEN "w" ELSE IF c = "É" THEN "é" ELSE c

to_lowercase(t) == [i \in 1..Len(t) |-> to_lowercase_char(t[i])]

\* Byte order of the characters in use, for String::cmp: the first byte of the
\* UTF-8 form.
char_ord(c) ==
    CASE c = NL -> 10 [] c = " " -> 32 [] c = "#" -> 35 [] c = "-" -> 45
      [] c = "." -> 46 [] c = "/" -> 47 [] c = "A" -> 65 [] c = "W" -> 87
      [] c = "[" -> 91 [] c = "]" -> 93 [] c = "a" -> 97 [] c = "b" -> 98
      [] c = "d" -> 100 [] c = "m" -> 109 [] c = "w" -> 119 [] c = "|" -> 124
      [] c = "é" -> 195 [] c = "É" -> 195 [] c = "Ã" -> 195 [] c = "©" -> 194 [] OTHER -> 127

RECURSIVE str_lt(_, _)
str_lt(a, b) ==
    IF b = << >> THEN FALSE
    ELSE IF a = << >> THEN TRUE
    ELSE IF Head(a) # Head(b) THEN char_ord(Head(a)) < char_ord(Head(b))
    ELSE str_lt(Tail(a), Tail(b))

starts_with(t, p) == Len(p) <= Len(t) /\ SubSeq(t, 1, Len(p)) = p

ends_with(t, p) == Len(p) <= Len(t) /\ SubSeq(t, Len(t) - Len(p) + 1, Len(t)) = p

\* str::strip_suffix(..).unwrap() of a text that ends with p
strip_suffix(t, p) == SubSeq(t, 1, Len(t) - Len(p))

to_ascii_lowercase(t) ==
    [i \in 1..Len(t) |-> IF t[i] = "A" THEN "a" ELSE IF t[i] = "W" THEN "w" ELSE t[i]]

eq_ignore_ascii_case(a, b) == to_ascii_lowercase(a) = to_ascii_lowercase(b)

is_alphanumeric(c) ==
    c \in {"a", "b", "c", "d", "e", "h", "j", "l", "m", "n", "o", "p", "r", "s", "t",
           "w", "x", "A", "H", "S", "W", "É", "é"}

\* The bytes of a text, each written as the character `byte as char` gives.
utf8(c) == IF c = "é" THEN <<"Ã", "©">> ELSE IF c = "É" THEN <<"Ã", "\\x89">> ELSE << c >>

RECURSIVE as_bytes(_)
as_bytes(t) == IF t = << >> THEN << >> ELSE utf8(Head(t)) \o as_bytes(Tail(t))

\* The characters a sequence of UTF-8 bytes stands for.
RECURSIVE from_utf8(_)
from_utf8(bytes) ==
    IF bytes = << >> THEN << >>
    ELSE IF Len(bytes) >= 2 /\ SubSeq(bytes, 1, 2) = utf8("é")
    THEN <<"é">> \o from_utf8(SubSeq(bytes, 3, Len(bytes)))
    ELSE IF Len(bytes) >= 2 /\ SubSeq(bytes, 1, 2) = utf8("É")
    THEN <<"É">> \o from_utf8(SubSeq(bytes, 3, Len(bytes)))
    ELSE << Head(bytes) >> \o from_utf8(Tail(bytes))

\* Rope::from_str: the rope holds the characters of the bytes of the str.
from_str(text) == from_utf8(as_bytes(text))

\* Rope::to_string: the String made of the bytes of the rope's characters.
to_string(rope) == from_utf8(as_bytes(rope))

contains(t, p) ==
    \E i \in 0..(Len(t) - Len(p)) : SubSeq(t, i + 1, i + Len(p)) = p

----------------------------------------------------------------------------
(* ropey::Rope *)

len_chars(r) == Len(r)

len_lines(r) == Cardinality({i \in 1..Len(r) : r[i] = NL}) + 1

\* Rope::char_to_line: the number of line breaks before char index idx.
char_to_line(r, idx) == Cardinality({i \in 1..idx : r[i] = NL})

\* Rope::line_to_char: the char index at which line l starts; the line one
\* past the last starts at len_chars.  (ropey panics for l > len_lines.)
line_to_char(r, l) ==
    IF l = 0 THEN 0
    ELSE IF l >= len_lines(r) THEN Len(r)
    ELSE CHOOSE i \in 1..Len(r) : r[i] = NL /\ char_to_line(r, i) = l

\* Rope::slice(a..b) and Rope::remove(a..b), Rope::insert(idx, text)
slice(r, a, b) == SubSeq(r, a + 1, b)
remove(r, a, b) == SubSeq(r, 1, a) \o SubSeq(r, b + 1, Len(r))
insert(r, idx, t) == SubSeq(r, 1, idx) \o t \o SubSeq(r, idx + 1, Len(r))

\* Rope::line(l): line l with its line break.
line(r, l) == slice(r, line_to_char(r, l), line_to_char(r, l + 1))

line_content_len(ln) ==
    LET len == Len(ln)
    IN  IF len > 0 /\ ln[len] = NL THEN len - 1 ELSE len

Pos(l, c) == [line |-> l, col |-> c]

current_line_len(s) ==
    IF s.cursor.line < len_lines(s.content)
    THEN line_content_len(line(s.content, s.cursor.line))
    ELSE 0

read_line_len(s) ==
    IF s.read_cursor.line < len_lines(s.content)
    THEN line_content_len(line(s.content, s.read_cursor.line))
    ELSE 0

line_col_to_char_idx(r, l, c) ==
    IF l >= len_lines(r) THEN len_chars(r)
    ELSE line_to_char(r, l) + Min(c, line_content_len(line(r, l)))

\* A failed bounds check inside ropey aborts the process.
Panic(s) == [s EXCEPT !.panicked = TRUE]

----------------------------------------------------------------------------
(* ViewerState *)

\* ViewerState::new
new_state ==
    [ mode              |-> "Read",
      content           |-> << >>,
      cursor            |-> Pos(0, 0),
      read_cursor       |-> Pos(0, 0),
      dirty             |-> FALSE,
      current_note_path |-> None,
      autocomplete      |-> None,
      selection         |-> None,
      undo_stack        |-> << >>,
      redo_stack        |-> << >>,
      panicked          |-> FALSE ]

\* The link list of update_links is display state and is not modelled.
update_links(s, note) ==
    [s EXCEPT !.selection = None,
              !.current_note_path = Some(note.path),
              !.content = from_str(note.content),
              !.cursor = Pos(0, 0),
              !.read_cursor = Pos(0, 0),
              !.undo_stack = << >>,
              !.redo_stack = << >>]

EditorSnapshot(s) == [content |-> s.content, cursor |-> s.cursor]

\* A history that never drops its oldest snapshot.
save_undo_snapshot_uncapped(s) ==
    [s EXCEPT !.undo_stack = Append(s.undo_stack, EditorSnapshot(s)),
              !.redo_stack = << >>]

save_undo_snapshot(s) ==
    LET pushed == Append(s.undo_stack, EditorSnapshot(s))
    IN  [s EXCEPT !.undo_stack = IF Len(pushed) > max_undo_history
                                 THEN Tail(pushed) ELSE pushed,
                  !.redo_stack = << >>]

\* Entering edit mode with the snapshot taken before the cursor is copied.
enter_edit_mode_snapshot_first(s) ==
    LET s1 == save_undo_snapshot(s)
    IN  [s1 EXCEPT !.mode = "Edit", !.cursor = s.read_cursor, !.selection = None]

enter_edit_mode(s) ==
    save_undo_snapshot([s EXCEPT !.mode = "Edit",
                                 !.cursor = s.read_cursor,
                                 !.selection = None])

\* Leaving edit mode without clearing the history.
exit_edit_mode_keeps_history(s) ==
    [s EXCEPT !.mode = "Read",
              !.dirty = FALSE,
              !.autocomplete = None,
              !.selection = None]

\* Leaving edit mode with the selection kept.
exit_edit_mode_keeps_selection(s) ==
    [s EXCEPT !.mode = "Read",
              !.dirty = FALSE,
              !.autocomplete = None,
              !.undo_stack = << >>,
              !.redo_stack = << >>]

exit_edit_mode(s) ==
    [s EXCEPT !.mode = "Read",
              !.dirty = FALSE,
              !.autocomplete = None,
              !.selection = None,
              !.undo_stack = << >>,
              !.redo_stack = << >>]

\* A variant that returns the buffer without its final line break.
exit_edit_mode_result_chomped(s) ==
    IF s.content # << >> /\ s.content[Len(s.content)] = NL
    THEN SubSeq(s.content, 1, Len(s.content) - 1)
    ELSE s.content

\* The String exit_edit_mode returns: content.to_string().
exit_edit_mode_result(s) == to_string(s.content)

\* An undo that restores the buffer and leaves the cursor where it is.
undo_keeps_cursor(s) ==
    IF s.undo_stack # << >>
    THEN LET snapshot == s.undo_stack[Len(s.undo_stack)]
         IN  [s EXCEPT !.undo_stack = SubSeq(s.undo_stack, 1, Len(s.undo_stack) - 1),
                       !.redo_stack = Append(s.redo_stack, EditorSnapshot(s)),
                       !.content = snapshot.content,
                       !.dirty = TRUE]
    ELSE s

undo(s) ==
    IF s.undo_stack # << >>
    THEN LET snapshot == s.undo_stack[Len(s.undo_stack)]
         IN  [s EXCEPT !.undo_stack = SubSeq(s.undo_stack, 1, Len(s.undo_stack) - 1),
                       !.redo_stack = Append(s.redo_stack, EditorSnapshot(s)),
                       !.content = snapshot.content,
                       !.cursor = snapshot.cursor,
                       !.dirty = TRUE]
    ELSE s

\* The bool undo returns.
undo_result(s) == s.undo_stack # << >>

\* A redo that does not save the state it replaces.
redo_without_push(s) ==
    IF s.redo_stack # << >>
    THEN LET snapshot == s.redo_stack[Len(s.redo_stack)]
         IN  [s EXCEPT !.redo_stack = SubSeq(s.redo_stack, 1, Len(s.redo_stack) - 1),
                       !.content = snapshot.content,
                       !.cursor = snapshot.cursor,
                       !.dirty = TRUE]
    ELSE s

redo(s) ==
    IF s.redo_stack # << >>
    THEN LET snapshot == s.redo_stack[Len(s.redo_stack)]
         IN  [s EXCEPT !.redo_stack = SubSeq(s.redo_stack, 1, Len(s.redo_stack) - 1),
                       !.undo_stack = Append(s.undo_stack, EditorSnapshot(s)),
                       !.content = snapshot.content,
                       !.cursor = snapshot.cursor,
                       !.dirty = TRUE]
    ELSE s

\* The bool redo returns.
redo_result(s) == s.redo_stack # << >>

check_autocomplete_trigger(s) ==
    LET char_idx == line_col_to_char_idx(s.content, s.cursor.line, s.cursor.col)
        triggered ==
            /\ s.cursor.col >= 2
            /\ char_idx >= 2
            /\ slice(s.content, char_idx - 2, char_idx) = <<"[", "[">>
        s1 == IF triggered
              THEN [s EXCEPT !.autocomplete =
                       Some([ trigger_pos |-> Pos(s.cursor.line, s.cursor.col - 2),
                              query       |-> << >>,
                              matches     |-> << >>,
                              selected    |-> 0 ])]
              ELSE s
    IN  IF IsSome(s1.autocomplete)
        THEN LET ac == Unwrap(s1.autocomplete)
                 trigger_line == ac.trigger_pos.line
                 trigger_col == ac.trigger_pos.col
                 trigger_idx == line_col_to_char_idx(s1.content, trigger_line, trigger_col)
                 cursor_idx == line_col_to_char_idx(s1.content, s1.cursor.line, s1.cursor.col)
                 new_query == IF cursor_idx > trigger_idx + 2
                              THEN slice(s1.content, trigger_idx + 2, cursor_idx)
                              ELSE << >>
                 should_close == \/ contains(new_query, <<"]", "]">>)
                                 \/ s1.cursor.line # trigger_line
             IN  IF should_close
                 THEN [s1 EXCEPT !.autocomplete = None]
                 ELSE [s1 EXCEPT !.autocomplete = Some([ac EXCEPT !.query = new_query])]
        ELSE s1

\* An insertion that pushes an undo snapshot, as the deletions do.
insert_char_snapshot(s, c) ==
    LET s1 == save_undo_snapshot(s)
        char_idx == line_col_to_char_idx(s1.content, s1.cursor.line, s1.cursor.col)
    IN  check_autocomplete_trigger(
            [s1 EXCEPT !.content = insert(s1.content, char_idx, <<c>>),
                       !.cursor.col = s1.cursor.col + 1,
                       !.dirty = TRUE])

\* An insertion that does not mark the buffer as changed.
insert_char_clean(s, c) ==
    LET char_idx == line_col_to_char_idx(s.content, s.cursor.line, s.cursor.col)
    IN  check_autocomplete_trigger(
            [s EXCEPT !.content = insert(s.content, char_idx, <<c>>),
                      !.cursor.col = s.cursor.col + 1])

insert_char(s, c) ==
    LET char_idx == line_col_to_char_idx(s.content, s.cursor.line, s.cursor.col)
    IN  check_autocomplete_trigger(
            [s EXCEPT !.content = insert(s.content, char_idx, <<c>>),
                      !.cursor.col = s.cursor.col + 1,
                      !.dirty = TRUE])

insert_newline(s) ==
    LET s1 == save_undo_snapshot(s)
        char_idx == line_col_to_char_idx(s1.content, s1.cursor.line, s1.cursor.col)
    IN  [s1 EXCEPT !.content = insert(s1.content, char_idx, <<NL>>),
                   !.cursor = Pos(s1.cursor.line + 1, 0),
                   !.dirty = TRUE,
                   !.autocomplete = None]

delete_char(s) ==
    IF s.cursor.col > 0
    THEN LET s1 == save_undo_snapshot(s)
             char_idx == line_col_to_char_idx(s1.content, s1.cursor.line, s1.cursor.col)
         IN  IF char_idx > 0
             THEN check_autocomplete_trigger(
                      [s1 EXCEPT !.content = remove(s1.content, char_idx - 1, char_idx),
                                 !.cursor.col = s1.cursor.col - 1,
                                 !.dirty = TRUE])
             ELSE s1
    ELSE IF s.cursor.line > 0
    THEN LET s1 == save_undo_snapshot(s)
             char_idx == line_col_to_char_idx(s1.content, s1.cursor.line, s1.cursor.col)
         IN  IF char_idx > 0
             THEN IF s1.cursor.line - 1 >= len_lines(s1.content)
                  THEN Panic(s1)      \* content.line(cursor.line - 1) out of bounds
                  ELSE LET ll == Len(line(s1.content, s1.cursor.line - 1))
                           prev_line_len == IF ll > 0 THEN ll - 1 ELSE 0
                       IN  [s1 EXCEPT !.content = remove(s1.content, char_idx - 1, char_idx),
                                      !.cursor = Pos(s1.cursor.line - 1, prev_line_len),
                                      !.dirty = TRUE,
                                      !.autocomplete = None]
             ELSE s1
    ELSE s

delete_forward(s) ==
    LET char_idx == line_col_to_char_idx(s.content, s.cursor.line, s.cursor.col)
    IN  IF char_idx < len_chars(s.content)
        THEN LET s1 == save_undo_snapshot(s)
             IN  check_autocomplete_trigger(
                     [s1 EXCEPT !.content = remove(s1.content, char_idx, char_idx + 1),
                                !.dirty = TRUE])
        ELSE s

----------------------------------------------------------------------------
(* Cursor motion *)

move_cursor_left(s) ==
    IF s.cursor.col > 0
    THEN [s EXCEPT !.cursor.col = s.cursor.col - 1]
    ELSE IF s.cursor.line > 0
    THEN LET s1 == [s EXCEPT !.cursor.line = s.cursor.line - 1]
         IN  [s1 EXCEPT !.cursor.col = current_line_len(s1)]
    ELSE s

move_cursor_right(s) ==
    IF s.cursor.col < current_line_len(s)
    THEN [s EXCEPT !.cursor.col = s.cursor.col + 1]
    ELSE IF s.cursor.line < len_lines(s.content) - 1
    THEN [s EXCEPT !.cursor = Pos(s.cursor.line + 1, 0)]
    ELSE s

move_cursor_up(s) ==
    IF s.cursor.line > 0
    THEN LET s1 == [s EXCEPT !.cursor.line = s.cursor.line - 1]
         IN  [s1 EXCEPT !.cursor.col = Min(s1.cursor.col, current_line_len(s1))]
    ELSE s

move_cursor_down(s) ==
    IF s.cursor.line < len_lines(s.content) - 1
    THEN LET s1 == [s EXCEPT !.cursor.line = s.cursor.line + 1]
         IN  [s1 EXCEPT !.cursor.col = Min(s1.cursor.col, current_line_len(s1))]
    ELSE s

move_to_line_start(s) == [s EXCEPT !.cursor.col = 0]

\* A motion to the end of the line that marks the buffer as changed.
move_to_line_end_dirty(s) == [s EXCEPT !.cursor.col = current_line_len(s), !.dirty = TRUE]

move_to_line_end(s) == [s EXCEPT !.cursor.col = current_line_len(s)]

\* The first loop of move_word_left / move_read_word_left: skip whitespace.
RECURSIVE skip_ws_left(_, _)
skip_ws_left(r, new_idx) ==
    IF new_idx > 0 /\ is_whitespace(r[new_idx + 1])
    THEN skip_ws_left(r, new_idx - 1)
    ELSE new_idx

\* The second loop: skip word characters.
RECURSIVE skip_word_left(_, _)
skip_word_left(r, new_idx) ==
    IF new_idx > 0
    THEN LET ch == r[new_idx]        \* content.char(new_idx - 1)
         IN  IF is_whitespace(ch) \/ is_word_separator(ch)
             THEN new_idx
             ELSE skip_word_left(r, new_idx - 1)
    ELSE new_idx

\* The first loop of move_word_right / move_read_word_right: skip the word.
RECURSIVE skip_word_right(_, _)
skip_word_right(r, new_idx) ==
    IF new_idx < Len(r)
    THEN LET ch == r[new_idx + 1]
         IN  IF is_whitespace(ch) \/ is_word_separator(ch)
             THEN new_idx
             ELSE skip_word_right(r, new_idx + 1)
    ELSE new_idx

\* The second loop: skip whitespace.
RECURSIVE skip_ws_right(_, _)
skip_ws_right(r, new_idx) ==
    IF new_idx < Len(r) /\ is_whitespace(r[new_idx + 1])
    THEN skip_ws_right(r, new_idx + 1)
    ELSE new_idx

\* The conversion back to line/col at the end of the word motions.
idx_to_pos(r, new_idx) ==
    LET new_line == char_to_line(r, new_idx)
    IN  Pos(new_line, new_idx - line_to_char(r, new_line))

move_word_left(s) ==
    LET char_idx == line_col_to_char_idx(s.content, s.cursor.line, s.cursor.col)
    IN  IF char_idx = 0 THEN s
        ELSE [s EXCEPT !.cursor = idx_to_pos(s.content,
                  skip_word_left(s.content, skip_ws_left(s.content, char_idx - 1)))]

move_word_right(s) ==
    LET char_idx == line_col_to_char_idx(s.content, s.cursor.line, s.cursor.col)
    IN  IF char_idx >= len_chars(s.content) THEN s
        ELSE [s EXCEPT !.cursor = idx_to_pos(s.content,
                  skip_ws_right(s.content, skip_word_right(s.content, char_idx)))]

move_read_cursor_left(s) ==
    IF s.read_cursor.col > 0
    THEN [s EXCEPT !.read_cursor.col = s.read_cursor.col - 1]
    ELSE IF s.read_cursor.line > 0
    THEN LET s1 == [s EXCEPT !.read_cursor.line = s.read_cursor.line - 1]
         IN  [s1 EXCEPT !.read_cursor.col = read_line_len(s1)]
    ELSE s

move_read_cursor_right(s) ==
    IF s.read_cursor.col < read_line_len(s)
    THEN [s EXCEPT !.read_cursor.col = s.read_cursor.col + 1]
    ELSE IF s.read_cursor.line < len_lines(s.content) - 1
    THEN [s EXCEPT !.read_cursor = Pos(s.read_cursor.line + 1, 0)]
    ELSE s

move_read_cursor_up(s) ==
    IF s.read_cursor.line > 0
    THEN LET s1 == [s EXCEPT !.read_cursor.line = s.read_cursor.line - 1]
         IN  [s1 EXCEPT !.read_cursor.col = Min(s1.read_cursor.col, read_line_len(s1))]
    ELSE s

move_read_cursor_down(s) ==
    IF s.read_cursor.line < len_lines(s.content) - 1
    THEN LET s1 == [s EXCEPT !.read_cursor.line = s.read_cursor.line + 1]
         IN  [s1 EXCEPT !.read_cursor.col = Min(s1.read_cursor.col, read_line_len(s1))]
    ELSE s

move_read_word_left(s) ==
    LET char_idx == line_col_to_char_idx(s.content, s.read_cursor.line, s.read_cursor.col)
    IN  IF char_idx = 0 THEN s
        ELSE [s EXCEPT !.read_cursor = idx_to_pos(s.content,
                  skip_word_left(s.content, skip_ws_left(s.content, char_idx - 1)))]

move_read_word_right(s) ==
    LET char_idx == line_col_to_char_idx(s.content, s.read_cursor.line, s.read_cursor.col)
    IN  IF char_idx >= len_chars(s.content) THEN s
        ELSE [s EXCEPT !.read_cursor = idx_to_pos(s.content,
                  skip_ws_right(s.content, skip_word_right(s.content, char_idx)))]

----------------------------------------------------------------------------
(* Selection *)

\* An ordering that takes the anchor for the start whatever the head is.
ordered_anchor_first(sel) == << sel.anchor, sel.head >>

\* Selection::ordered: << start, end >> in document order.
ordered(sel) ==
    IF \/ sel.anchor.line < sel.head.line
       \/ (sel.anchor.line = sel.head.line /\ sel.anchor.col <= sel.head.col)
    THEN << sel.anchor, sel.head >>
    ELSE << sel.head, sel.anchor >>

\* Selection::line_range: << start_line, end_line >>.
line_range(sel) == << ordered(sel)[1].line, ordered(sel)[2].line >>

start_visual_selection(s) ==
    [s EXCEPT !.selection =
        Some([anchor |-> s.read_cursor, head |-> s.read_cursor, mode |-> "Visual"])]

start_char_selection(s) ==
    IF s.selection = None
    THEN [s EXCEPT !.selection =
             Some([anchor |-> s.cursor, head |-> s.cursor, mode |-> "CharSelect"])]
    ELSE s

update_selection_head(s) ==
    IF IsSome(s.selection)
    THEN LET sel == Unwrap(s.selection)
         IN  [s EXCEPT !.selection =
                 Some([sel EXCEPT !.head = IF sel.mode = "Visual"
                                           THEN s.read_cursor ELSE s.cursor])]
    ELSE s

delete_selected_text(s) ==
    IF s.selection = None THEN s
    ELSE
    LET sel == Unwrap(s.selection)
        s1 == save_undo_snapshot([s EXCEPT !.selection = None])
    IN  IF sel.mode = "Visual"
        THEN LET start_line == line_range(sel)[1]
                 end_line == line_range(sel)[2]
             IN  IF start_line > len_lines(s1.content)
                 THEN Panic(s1)       \* content.line_to_char(start_line) out of bounds
                 ELSE LET start_idx == line_to_char(s1.content, start_line)
                          end_idx == IF end_line + 1 < len_lines(s1.content)
                                     THEN line_to_char(s1.content, end_line + 1)
                                     ELSE len_chars(s1.content)
                          removed == remove(s1.content, start_idx, end_idx)
                      IN  [s1 EXCEPT !.content = removed,
                                     !.read_cursor =
                                         Pos(Min(start_line, len_lines(removed) - 1), 0),
                                     !.dirty = TRUE]
        ELSE LET start == ordered(sel)[1]
                 end == ordered(sel)[2]
                 start_idx == line_col_to_char_idx(s1.content, start.line, start.col)
                 end_idx == line_col_to_char_idx(s1.content, end.line, end.col)
             IN  IF start_idx < end_idx
                 THEN [s1 EXCEPT !.content = remove(s1.content, start_idx, end_idx),
                                 !.cursor = start,
                                 !.dirty = TRUE]
                 ELSE s1

\* A clear_selection that cuts the selected text instead of only dropping the
\* selection.
clear_selection_cuts(s) == delete_selected_text(s)

clear_selection(s) == [s EXCEPT !.selection = None]

\* text.split('\n'): the pieces between line feeds.
RECURSIVE split_nl(_)
split_nl(t) ==
    IF \A i \in 1..Len(t) : t[i] # NL THEN << t >>
    ELSE LET k == CHOOSE i \in 1..Len(t) : t[i] = NL /\ \A j \in 1..(i - 1) : t[j] # NL
         IN  << SubSeq(t, 1, k - 1) >> \o split_nl(SubSeq(t, k + 1, Len(t)))

paste_text(s, text) ==
    LET s1 == save_undo_snapshot(s)
        char_idx == line_col_to_char_idx(s1.content, s1.cursor.line, s1.cursor.col)
        lines == split_nl(text)
    IN  [s1 EXCEPT !.content = insert(s1.content, char_idx, text),
                   !.cursor = IF Len(lines) > 1
                              THEN Pos(s1.cursor.line + Len(lines) - 1,
                                       str_len(lines[Len(lines)]))
                              ELSE Pos(s1.cursor.line, s1.cursor.col + str_len(text)),
                   !.dirty = TRUE]

paste_text_at_read_cursor(s, text) ==
    LET s1 == save_undo_snapshot(s)
        insert_line == s1.read_cursor.line + 1
        char_idx == IF insert_line < len_lines(s1.content)
                    THEN line_to_char(s1.content, insert_line)
                    ELSE len_chars(s1.content)
        insert_text == IF insert_line >= len_lines(s1.content)
                          /\ ~starts_with(text, <<NL>>)
                       THEN <<NL>> \o text
                       ELSE text
    IN  [s1 EXCEPT !.content = insert(s1.content, char_idx, insert_text),
                   !.read_cursor = Pos(insert_line, 0),
                   !.dirty = TRUE]

----------------------------------------------------------------------------
(* Notes and the vault *)

\* str::lines: the pieces between line feeds, without a final empty piece.
lines_of(t) ==
    LET pieces == split_nl(t)
    IN  IF pieces[Len(pieces)] = << >>
        THEN SubSeq(pieces, 1, Len(pieces) - 1)
        ELSE pieces

RECURSIVE trim_start(_)
trim_start(t) ==
    IF t # << >> /\ is_whitespace(Head(t)) THEN trim_start(Tail(t)) ELSE t

RECURSIVE trim_end(_)
trim_end(t) ==
    IF t # << >> /\ is_whitespace(t[Len(t)])
    THEN trim_end(SubSeq(t, 1, Len(t) - 1))
    ELSE t

trim(t) == trim_end(trim_start(t))

(* A relative path is a record: the names of its directories, and the stem *)
(* and the extension of its last component (no extension: the empty text). *)

md == <<"m", "d">>

PathIn(dir, stem, ext) == [dir |-> dir, stem |-> stem, ext |-> ext]

NotePath(stem) == PathIn(<< >>, stem, md)

\* Path::file_stem
file_stem(path) == path.stem

\* Path::file_name
file_name(path) ==
    IF path.ext = << >> THEN path.stem ELSE path.stem \o <<".">> \o path.ext

\* Path::with_extension("")
with_extension_empty(path) == [path EXCEPT !.ext = << >>]

\* Path::components
components(path) == path.dir \o << file_name(path) >>

RECURSIVE join_components(_)
join_components(cs) ==
    IF Len(cs) = 1 THEN cs[1] ELSE cs[1] \o <<"/">> \o join_components(Tail(cs))

\* Path::to_string_lossy
to_string_lossy(path) == join_components(components(path))

\* Ord for PathBuf: component by component.
RECURSIVE components_lt(_, _)
components_lt(a, b) ==
    IF b = << >> THEN FALSE
    ELSE IF a = << >> THEN TRUE
    ELSE IF Head(a) # Head(b) THEN str_lt(Head(a), Head(b))
    ELSE components_lt(Tail(a), Tail(b))

path_lt(a, b) == components_lt(components(a), components(b))

\* Vec<PathBuf>::sort of the paths pushed from a set.
RECURSIVE sort_paths(_)
sort_paths(S) ==
    IF S = {} THEN << >>
    ELSE LET least == CHOOSE p \in S : \A q \in S : ~path_lt(q, p)
         IN  << least >> \o sort_paths(S \ {least})

extract_title(path, content) ==
    LET ls == lines_of(content)
        heads == {i \in 1..Len(ls) : starts_with(trim(ls[i]), <<"#", " ">>)}
    IN  IF heads # {}
        THEN LET i == CHOOSE k \in heads : \A j \in heads : k <= j
                 trimmed == trim(ls[i])
             IN  trim(SubSeq(trimmed, 3, Len(trimmed)))
        ELSE file_stem(path)

is_tag_char(c) == is_alphanumeric(c) \/ c \in {"-", "_", "/"}

\* content[..i].chars().last(): the character that ends at byte i.  i is the
\* byte offset of the character the loop is at, always a character boundary.
prev_char(content, i) ==
    LET ks == {k \in 0..Len(content) : str_len(SubSeq(content, 1, k)) = i}
        k == CHOOSE x \in ks : TRUE
    IN  IF k = 0 THEN None ELSE Some(content[k])

\* The inner loop of extract_tags: the tag characters from position k on.
RECURSIVE collect_tag(_, _)
collect_tag(content, k) ==
    IF k <= Len(content) /\ is_tag_char(content[k])
    THEN << content[k] >> \o collect_tag(content, k + 1)
    ELSE << >>

\* The outer loop of extract_tags at the character of position k (from 1),
\* whose byte offset is i.
RECURSIVE extract_tags_from(_, _, _, _)
extract_tags_from(content, k, i, tags) ==
    IF k > Len(content) THEN tags
    ELSE
    LET c == content[k]
    IN  IF c = "#"
        THEN LET prev_is_valid ==
                     \/ i = 0
                     \/ prev_char(content, i) = None
                     \/ is_whitespace(Unwrap(prev_char(content, i)))
             IN  IF prev_is_valid
                 THEN LET tag == collect_tag(content, k + 1)
                      IN  extract_tags_from(content, k + 1 + Len(tag),
                              i + str_len(tag) + len_utf8(c),
                              IF tag # << >> THEN tags \cup {to_lowercase(tag)}
                              ELSE tags)
                 ELSE extract_tags_from(content, k + 1, i + len_utf8(c), tags)
        ELSE extract_tags_from(content, k + 1, i + len_utf8(c), tags)

\* A variant that takes a tag behind every #, whatever precedes it.
extract_tags_any_hash(content) ==
    {to_lowercase(collect_tag(content, h + 1)) :
         h \in {k \in DOMAIN content :
                   content[k] = "#" /\ collect_tag(content, k + 1) # << >>}}

extract_tags(content) == extract_tags_from(content, 1, 0, {})

\* The inner loop of extract_links from byte i on: where it stops and what it
\* has collected.
RECURSIVE scan_link(_, _, _, _, _)
scan_link(bytes, i, target, display, found_pipe) ==
    IF i + 1 < Len(bytes) /\ ~(bytes[i + 1] = "]" /\ bytes[i + 2] = "]")
    THEN LET c == bytes[i + 1]
         IN  IF c = "|" /\ ~found_pipe
             THEN scan_link(bytes, i + 1, target, Some(<< >>), TRUE)
             ELSE IF found_pipe
             THEN scan_link(bytes, i + 1, target,
                            Some(Append(Unwrap(display), c)), found_pipe)
             ELSE scan_link(bytes, i + 1, Append(target, c), display, found_pipe)
    ELSE [i |-> i, target |-> target, display |-> display]

Link(target, display, start, end) ==
    [target |-> target, display |-> display, span |-> << start, end >>]

\* The outer loop of extract_links from byte i on.
RECURSIVE extract_links_from(_, _, _)
extract_links_from(bytes, i, links) ==
    IF i >= Len(bytes) THEN links
    ELSE IF i + 1 < Len(bytes) /\ bytes[i + 1] = "[" /\ bytes[i + 2] = "["
    THEN LET start == i
             body == scan_link(bytes, i + 2, << >>, None, FALSE)
             j == body.i
         IN  IF j + 1 < Len(bytes) /\ bytes[j + 1] = "]" /\ bytes[j + 2] = "]"
             THEN extract_links_from(bytes, j + 2,
                      IF body.target # << >>
                      THEN Append(links,
                               Link(trim(body.target),
                                    IF IsSome(body.display)
                                    THEN Some(trim(Unwrap(body.display))) ELSE None,
                                    start, j + 2))
                      ELSE links)
             ELSE extract_links_from(bytes, j + 1, links)
    ELSE extract_links_from(bytes, i + 1, links)

\* A variant that gives up the whole text at a [[ that nothing closes.
extract_links_abort(content) ==
    LET bytes == as_bytes(content)
        unclosed ==
            \E k \in 1..(Len(bytes) - 1) :
                /\ bytes[k] = "[" /\ bytes[k + 1] = "["
                /\ ~\E c \in (k + 2)..(Len(bytes) - 1) : bytes[c] = "]" /\ bytes[c + 1] = "]"
    IN  IF unclosed THEN << >> ELSE extract_links_from(bytes, 0, << >>)

extract_links(content) == extract_links_from(as_bytes(content), 0, << >>)

\* Note::from_file; the timestamp is not modelled.
from_file(path, content) ==
    [path |-> path, title |-> extract_title(path, content), content |-> content,
     tags |-> extract_tags(content), links |-> extract_links(content)]

\* Vault::reload_note, as the specification describes it: the file at path is
\* read and parsed again and replaces the note.
reload_note(notes, path, file_content) ==
    [notes EXCEPT ![path] = from_file(path, file_content)]

\* The files of the vault directory when the program starts.
InitialFiles ==
    ( NotePath(<<"a">>) :> <<"a", "[">> ) @@
    ( NotePath(<<"é">>) :> <<"a", NL, "b", NL, NL, "é">> )

\* Vault::open, the walk that loads the notes: every file with extension md.
open(files) ==
    [p \in {q \in DOMAIN files : q.ext = md} |-> from_file(p, files[p])]

open_vault == open(InitialFiles)

\* The directories under the root that the files of the disk lie in.
directories(files) ==
    UNION {{SubSeq(q.dir, 1, n) : n \in 1..Len(q.dir)} : q \in DOMAIN files}

\* One entry of the walk of rebuild_tree.
TreeEntry(path, is_dir) ==
    [path |-> path, name |-> file_name(path), is_dir |-> is_dir,
     depth |-> Len(components(path)) - 1, expanded |-> TRUE]

\* The order of the walk: a directory before what it holds, and among the
\* entries of one directory the directories first, then by file name.
RECURSIVE walk_before(_, _, _, _)
walk_before(ca, a_is_dir, cb, b_is_dir) ==
    IF ca = << >> THEN cb # << >>
    ELSE IF cb = << >> THEN FALSE
    ELSE IF Head(ca) = Head(cb) /\ (Len(ca) > 1 \/ a_is_dir) = (Len(cb) > 1 \/ b_is_dir)
    THEN walk_before(Tail(ca), a_is_dir, Tail(cb), b_is_dir)
    ELSE LET a_dir == Len(ca) > 1 \/ a_is_dir
             b_dir == Len(cb) > 1 \/ b_is_dir
         IN  IF a_dir /\ ~b_dir THEN TRUE
             ELSE IF ~a_dir /\ b_dir THEN FALSE
             ELSE str_lt(Head(ca), Head(cb))

RECURSIVE sort_entries(_)
sort_entries(S) ==
    IF S = {} THEN << >>
    ELSE LET first == CHOOSE e \in S : \A f \in S :
                          ~walk_before(components(f.path), f.is_dir,
                                       components(e.path), e.is_dir)
         IN  << first >> \o sort_entries(S \ {first})

\* Vault::rebuild_tree: the walk lists every directory and file under the
\* root; an entry is dropped when it is a file without the extension md or
\* when its own name starts with a dot.
rebuild_tree(files) ==
    LET walked ==
            {TreeEntry(PathIn(SubSeq(d, 1, Len(d) - 1), d[Len(d)], << >>), TRUE) :
                 d \in directories(files)}
            \cup {TreeEntry(q, FALSE) : q \in DOMAIN files}
        kept == {e \in walked :
                    /\ e.is_dir \/ e.path.ext = md
                    /\ ~starts_with(e.name, <<".">>)}
    IN  sort_entries(kept)

\* The link target as Index::build files it: lowercase, without .md.
index_key(target) ==
    LET lower == to_lowercase(target)
    IN  IF ends_with(lower, <<".">> \o md) THEN strip_suffix(lower, <<".">> \o md)
        ELSE lower

\* Index::build
build(notes) ==
    LET all_tags == UNION {notes[p].tags : p \in DOMAIN notes}
        all_targets ==
            UNION {{index_key(notes[p].links[i].target) : i \in DOMAIN notes[p].links} :
                       p \in DOMAIN notes}
    IN  [tags |-> [tag \in all_tags |-> {p \in DOMAIN notes : tag \in notes[p].tags}],
         forward_links |->
             [target \in all_targets |->
                 {p \in DOMAIN notes :
                      \E i \in DOMAIN notes[p].links :
                          index_key(notes[p].links[i].target) = target}]]

\* A lookup of the tag as it is given, in whatever case.
notes_with_tag_exact(idx, tag) ==
    IF tag \in DOMAIN idx.tags THEN Some(idx.tags[tag]) ELSE None

\* Index::notes_with_tag
notes_with_tag(idx, tag) ==
    IF to_lowercase(tag) \in DOMAIN idx.tags THEN Some(idx.tags[to_lowercase(tag)])
    ELSE None

\* Vec<&str>::sort of the strings collected from a set.
RECURSIVE sort_strs(_)
sort_strs(S) ==
    IF S = {} THEN << >>
    ELSE LET least == CHOOSE t \in S : \A u \in S : ~str_lt(u, t)
         IN  << least >> \o sort_strs(S \ {least})

\* Index::all_tags
all_tags(idx) == sort_strs(DOMAIN idx.tags)

\* A lookup by the full path only, without the one by file name.
index_get_backlinks_by_path_only(idx, note_path) ==
    LET target_str == to_lowercase(to_string_lossy(with_extension_empty(note_path)))
    IN  IF target_str \in DOMAIN idx.forward_links
        THEN sort_paths({s \in idx.forward_links[target_str] : s # note_path})
        ELSE << >>

\* Index::get_backlinks
index_get_backlinks(idx, note_path) ==
    LET target == IF note_path.ext = md THEN with_extension_empty(note_path)
                  ELSE note_path
        target_str == to_lowercase(to_string_lossy(target))
        by_path == IF target_str \in DOMAIN idx.forward_links
                   THEN {s \in idx.forward_links[target_str] : s # note_path}
                   ELSE {}
        name_str == to_lowercase(file_name(target))
        by_name == IF name_str # target_str /\ name_str \in DOMAIN idx.forward_links
                   THEN {s \in idx.forward_links[name_str] :
                             s # note_path /\ s \notin by_path}
                   ELSE {}
    IN  sort_paths(by_path \cup by_name)

\* sort_by title, stable: a note goes before the first one it is less than.
RECURSIVE sort_by_title(_)
sort_by_title(ns) ==
    IF ns = << >> THEN << >>
    ELSE LET sorted == sort_by_title(SubSeq(ns, 1, Len(ns) - 1))
             x == ns[Len(ns)]
             after == {i \in 1..Len(sorted) : str_lt(x.title, sorted[i].title)}
             at == IF after = {} THEN Len(sorted) + 1
                   ELSE CHOOSE i \in after : \A j \in after : i <= j
         IN  SubSeq(sorted, 1, at - 1) \o << x >> \o SubSeq(sorted, at, Len(sorted))

\* The loop of Vault::get_backlinks over the notes, in iteration order `order`.
RECURSIVE linking_notes(_, _, _)
linking_notes(notes, order, note_path) ==
    IF order = << >> THEN << >>
    ELSE LET note == notes[Head(order)]
             target_name == file_stem(note_path)
             rest == linking_notes(notes, Tail(order), note_path)
             links_here ==
                 \E i \in DOMAIN note.links :
                     LET link_target ==
                             IF ends_with(note.links[i].target, <<".">> \o md)
                             THEN strip_suffix(note.links[i].target, <<".">> \o md)
                             ELSE note.links[i].target
                     IN  eq_ignore_ascii_case(link_target, target_name)
         IN  IF Head(order) # note_path /\ links_here THEN << note >> \o rest ELSE rest

\* Vault::get_backlinks
vault_get_backlinks(notes, order, note_path) ==
    sort_by_title(linking_notes(notes, order, note_path))

\* Path::starts_with: base is a prefix of p, component by component.
path_starts_with(p, base) ==
    /\ Len(components(base)) <= Len(components(p))
    /\ SubSeq(components(p), 1, Len(components(base))) = components(base)

\* Vault::visible_entries: the loop from entry i on.
RECURSIVE visible_from(_, _, _, _)
visible_from(entries, i, visible, collapsed_dirs) ==
    IF i > Len(entries) THEN visible
    ELSE LET entry == entries[i]
             is_hidden == \E dir \in collapsed_dirs : path_starts_with(entry.path, dir)
         IN  IF is_hidden
             THEN visible_from(entries, i + 1, visible, collapsed_dirs)
             ELSE visible_from(entries, i + 1, Append(visible, entry),
                      IF entry.is_dir /\ ~entry.expanded
                      THEN collapsed_dirs \cup {entry.path} ELSE collapsed_dirs)

\* A variant that hides an entry only when the directory that holds it is
\* collapsed.
visible_entries_parent_only(entries) ==
    SelectSeq(entries,
        LAMBDA e : ~\E i \in DOMAIN entries :
                       /\ entries[i].is_dir /\ ~entries[i].expanded
                       /\ components(entries[i].path) = e.path.dir)

visible_entries(entries) == visible_from(entries, 1, << >>, {})

\* Vault::link_exists
link_exists(notes, target) ==
    LET target_name == IF ends_with(target, <<".">> \o md)
                       THEN strip_suffix(target, <<".">> \o md)
                       ELSE target
    IN  \E path \in DOMAIN notes : eq_ignore_ascii_case(file_stem(path), target_name)

\* Vault::toggle_dir: the first entry that is a directory with this path.
toggle_dir(entries, path) ==
    LET found == {i \in DOMAIN entries : entries[i].path = path /\ entries[i].is_dir}
    IN  IF found = {} THEN entries
        ELSE LET i == CHOOSE x \in found : \A y \in found : x <= y
             IN  [entries EXCEPT ![i].expanded = ~entries[i].expanded]

\* position(|e| e.path == path) finds an entry.
is_visible(entries, path) ==
    \E i \in DOMAIN visible_entries(entries) : visible_entries(entries)[i].path = path

\* App::refresh_vault: the vault, its tree and the index, read from the disk.
refresh_vault(files) ==
    [vault |-> open(files), tree |-> rebuild_tree(files), index |-> build(open(files))]

\* App::refresh_vault, the end: the viewer shows the note selected before
\* the refresh again when its entry is still there.
refresh_viewer(s, selected_path, new) ==
    IF /\ IsSome(selected_path)
       /\ is_visible(new.tree, Unwrap(selected_path))
       /\ Unwrap(selected_path) \in DOMAIN new.vault
    THEN update_links(s, new.vault[Unwrap(selected_path)])
    ELSE s

\* str::replace(['-', '_'], " ")
replace_dashes(t) == [i \in 1..Len(t) |-> IF t[i] \in {"-", "_"} THEN " " ELSE t[i]]

\* The orders in which a HashMap over the paths in S may be iterated.
IterationOrders(S) ==
    {o \in [1..Cardinality(S) -> S] : \A i, j \in DOMAIN o : i # j => o[i] # o[j]}

----------------------------------------------------------------------------
(* Autocomplete *)

\* A variant that finds the query only as an unbroken substring.
fuzzy_match_contiguous(query, text) == contains(text, query)

RECURSIVE fuzzy_match(_, _)
fuzzy_match(query, text) ==
    IF text = << >> THEN query = << >>
    ELSE IF query = << >> THEN TRUE
    ELSE IF Head(text) = Head(query) THEN fuzzy_match(Tail(query), Tail(text))
    ELSE fuzzy_match(query, Tail(text))

\* The closure given to sort_by: TRUE when it returns Ordering::Less.
match_less(a, b, query_lower) ==
    LET a_starts == starts_with(to_lowercase(a[2]), query_lower)
        b_starts == starts_with(to_lowercase(b[2]), query_lower)
    IN  IF a_starts /\ ~b_starts THEN TRUE
        ELSE IF ~a_starts /\ b_starts THEN FALSE
        ELSE str_lt(a[2], b[2])

\* Vec::sort_by is stable: x goes before the first element it is less than.
RECURSIVE sort_insert(_, _, _)
sort_insert(sorted, x, query_lower) ==
    IF sorted = << >> THEN << x >>
    ELSE IF match_less(x, sorted[Len(sorted)], query_lower)
    THEN Append(sort_insert(SubSeq(sorted, 1, Len(sorted) - 1), x, query_lower),
                sorted[Len(sorted)])
    ELSE Append(sorted, x)

RECURSIVE sort_matches(_, _)
sort_matches(ms, query_lower) ==
    IF ms = << >> THEN << >>
    ELSE sort_insert(sort_matches(SubSeq(ms, 1, Len(ms) - 1), query_lower),
                     ms[Len(ms)], query_lower)

\* The loop over vault.notes, in iteration order `order`.
RECURSIVE collect_matches(_, _, _)
collect_matches(notes, order, query_lower) ==
    IF order = << >> THEN << >>
    ELSE LET note == notes[Head(order)]
             rest == collect_matches(notes, Tail(order), query_lower)
         IN  IF query_lower = << >> \/ fuzzy_match(query_lower, to_lowercase(note.title))
             THEN << << Head(order), note.title >> >> \o rest
             ELSE rest

update_autocomplete_matches(s, notes, order) ==
    IF IsSome(s.autocomplete)
    THEN LET ac == Unwrap(s.autocomplete)
             query_lower == to_lowercase(ac.query)
             sorted == sort_matches(collect_matches(notes, order, query_lower), query_lower)
         IN  [s EXCEPT !.autocomplete =
                 Some([ac EXCEPT !.matches = SubSeq(sorted, 1, Min(Len(sorted), MaxMatches)),
                                 !.selected = 0])]
    ELSE s

autocomplete_next(s) ==
    IF IsSome(s.autocomplete) /\ Unwrap(s.autocomplete).matches # << >>
    THEN LET ac == Unwrap(s.autocomplete)
         IN  [s EXCEPT !.autocomplete =
                 Some([ac EXCEPT !.selected = (ac.selected + 1) % Len(ac.matches)])]
    ELSE s

autocomplete_prev(s) ==
    IF IsSome(s.autocomplete) /\ Unwrap(s.autocomplete).matches # << >>
    THEN LET ac == Unwrap(s.autocomplete)
         IN  [s EXCEPT !.autocomplete =
                 Some([ac EXCEPT !.selected = IF ac.selected = 0
                                              THEN Len(ac.matches) - 1
                                              ELSE ac.selected - 1])]
    ELSE s

\* format!("[[{}]]", link_name)
completion_of(path) == <<"[", "[">> \o file_stem(path) \o <<"]", "]">>

autocomplete_accept(s) ==
    IF IsSome(s.autocomplete)
    THEN LET ac == Unwrap(s.autocomplete)
             s1 == [s EXCEPT !.autocomplete = None]
         IN  IF ac.selected < Len(ac.matches)
             THEN LET path == ac.matches[ac.selected + 1][1]
                      trigger_idx == line_col_to_char_idx(s1.content,
                                         ac.trigger_pos.line, ac.trigger_pos.col)
                      cursor_idx == line_col_to_char_idx(s1.content,
                                         s1.cursor.line, s1.cursor.col)
                      completion == completion_of(path)
                  IN  IF trigger_idx > cursor_idx
                      THEN Panic(s1)  \* content.remove(trigger_idx..cursor_idx)
                      ELSE [s1 EXCEPT
                              !.content = insert(remove(s1.content, trigger_idx, cursor_idx),
                                                 trigger_idx, completion),
                              !.cursor = Pos(ac.trigger_pos.line,
                                             ac.trigger_pos.col + str_len(completion)),
                              !.dirty = TRUE]
             ELSE s1
    ELSE s

----------------------------------------------------------------------------
(* The program: App::new, then one action per key or ViewerState call *)

\* App::new on a vault directory that holds `files`; args are the arguments
\* of the library call a run makes.
StartWith(files, args, budget) ==
    /\ vs = new_state
    /\ disk = files
    /\ vault = open(files)
    /\ tree = rebuild_tree(files)
    /\ index = build(open(files))
    /\ focus = "Browser"
    /\ arg = args
    /\ result = << >>
    /\ last = "new"
    /\ steps = budget

StartOn(files, budget) == StartWith(files, << >>, budget)

Start(budget) == StartOn(InitialFiles, budget)

Running == steps > 0 /\ ~vs.panicked

\* A save that leaves the index as it was built before the note changed.
save_note_stale_index(files, notes, idx, path, content) ==
    LET written == (path :> content) @@ files
    IN  [disk |-> written,
         vault |-> reload_note(notes, path, written[path]),
         index |-> idx]

\* What the Esc key does with the content exit_edit_mode returned: the file
\* is written, the note reloaded from it, and the index built from the vault.
save_note(files, notes, idx, path, content) ==
    LET written == (path :> content) @@ files
        reloaded == reload_note(notes, path, written[path])
    IN  [disk |-> written, vault |-> reloaded, index |-> build(reloaded)]

Step(op, s) ==
    /\ vs' = s
    /\ last' = op
    /\ steps' = steps - 1
    /\ focus' = focus

\* The refresh every editing key ends with (handler.rs 414, 421, 425, 386).
Refreshed(s) ==
    {update_autocomplete_matches(s, vault, o) : o \in IterationOrders(DOMAIN vault)}

Editing == Running /\ vs.mode = "Edit"
Reading == Running /\ vs.mode = "Read"

\* A handler that shows the note at path p in the viewer (browser Enter, Tab,
\* follow_link, backlinks, search, finder, graph, refresh_vault): none looks at
\* the editor mode.
LoadNote ==
    /\ Running
    /\ \E p \in DOMAIN vault : vs' = update_links(vs, vault[p])
    /\ focus' = "Viewer"
    /\ last' = "update_links"
    /\ steps' = steps - 1
    /\ UNCHANGED << vault, tree, index, disk, arg, result >>

\* handle_viewer_read, 'i'; selected_note() is the note the viewer shows.
KeyI ==
    /\ Reading
    /\ focus = "Viewer"
    /\ IsSome(vs.current_note_path)
    /\ Step("enter_edit_mode", enter_edit_mode(vs))
    /\ UNCHANGED << vault, tree, index, disk, arg, result >>

KeyChar ==
    /\ Editing
    /\ focus = "Viewer"
    /\ \E c \in TypedChars : \E s \in Refreshed(insert_char(vs, c)) : Step("insert_char", s)
    /\ UNCHANGED << vault, tree, index, disk, arg, result >>

\* Enter accepts the suggestion of an open session, and else breaks the line.
KeyEnter ==
    /\ Editing
    /\ focus = "Viewer"
    /\ IF IsSome(vs.autocomplete)
       THEN \E s \in Refreshed(autocomplete_accept(vs)) : Step("autocomplete_accept", s)
       ELSE Step("insert_newline", insert_newline(vs))
    /\ UNCHANGED << vault, tree, index, disk, arg, result >>

KeyBackspace ==
    /\ Editing
    /\ focus = "Viewer"
    /\ \E s \in Refreshed(delete_char(vs)) : Step("delete_char", s)
    /\ UNCHANGED << vault, tree, index, disk, arg, result >>

KeyDelete ==
    /\ Editing
    /\ focus = "Viewer"
    /\ \E s \in Refreshed(delete_forward(vs)) : Step("delete_forward", s)
    /\ UNCHANGED << vault, tree, index, disk, arg, result >>

KeyLeft ==
    /\ Editing
    /\ focus = "Viewer"
    /\ Step("move_cursor_left", move_cursor_left(vs))
    /\ UNCHANGED << vault, tree, index, disk, arg, result >>

KeyRight ==
    /\ Editing
    /\ focus = "Viewer"
    /\ Step("move_cursor_right", move_cursor_right(vs))
    /\ UNCHANGED << vault, tree, index, disk, arg, result >>

\* Up and Down without Control, which an open session takes for itself.
KeyUp ==
    /\ Editing
    /\ focus = "Viewer"
    /\ Step("move_cursor_up", move_cursor_up(vs))
    /\ UNCHANGED << vault, tree, index, disk, arg, result >>

KeyDown ==
    /\ Editing
    /\ focus = "Viewer"
    /\ Step("move_cursor_down", move_cursor_down(vs))
    /\ UNCHANGED << vault, tree, index, disk, arg, result >>

\* Home and Control-Left
KeyHome ==
    /\ Editing
    /\ focus = "Viewer"
    /\ Step("move_to_line_start", move_to_line_start(vs))
    /\ UNCHANGED << vault, tree, index, disk, arg, result >>

\* End and Control-Right
KeyEnd ==
    /\ Editing
    /\ focus = "Viewer"
    /\ Step("move_to_line_end", move_to_line_end(vs))
    /\ UNCHANGED << vault, tree, index, disk, arg, result >>

\* Control-Down or Control-n while a session is open
KeyCtrlN ==
    /\ Editing
    /\ focus = "Viewer"
    /\ IsSome(vs.autocomplete)
    /\ Step("autocomplete_next", autocomplete_next(vs))
    /\ UNCHANGED << vault, tree, index, disk, arg, result >>

\* Control-Up or Control-p while a session is open
KeyCtrlP ==
    /\ Editing
    /\ focus = "Viewer"
    /\ IsSome(vs.autocomplete)
    /\ Step("autocomplete_prev", autocomplete_prev(vs))
    /\ UNCHANGED << vault, tree, index, disk, arg, result >>

\* Esc closes an open session; without one it leaves edit mode and saves:
\* the file is written, the note reloaded and shown again.
KeyEsc ==
    /\ Editing
    /\ focus = "Viewer"
    /\ IF IsSome(vs.autocomplete)
       THEN /\ Step("autocomplete_close", [vs EXCEPT !.autocomplete = None])
            /\ UNCHANGED << vault, tree, index, disk, arg, result >>
       ELSE LET s1 == exit_edit_mode(vs)
                content == exit_edit_mode_result(vs)
            IN  IF IsSome(s1.current_note_path)
                THEN LET path == Unwrap(s1.current_note_path)
                         saved == save_note(disk, vault, index, path, content)
                     IN  /\ disk' = saved.disk
                         /\ vault' = saved.vault
                         /\ index' = saved.index
                         /\ Step("exit_edit_mode",
                                 IF path \in DOMAIN saved.vault
                                 THEN update_links(s1, saved.vault[path]) ELSE s1)
                         /\ UNCHANGED << tree, arg, result >>
                ELSE /\ Step("exit_edit_mode", s1)
                     /\ UNCHANGED << vault, tree, index, disk, arg, result >>

(* ViewerState operations no key of handler.rs is bound to.  The edit-cursor  *)
(* operations belong to Edit mode and the read-cursor ones to Read mode       *)
(* (viewer_state.rs 34-35, 350); undo, redo and the selection calls that      *)
(* serve both kinds of selection are called in either mode.                   *)

Undo ==
    /\ Running
    /\ Step("undo", undo(vs))
    /\ UNCHANGED << vault, tree, index, disk, arg, result >>

Redo ==
    /\ Running
    /\ Step("redo", redo(vs))
    /\ UNCHANGED << vault, tree, index, disk, arg, result >>

PasteText ==
    /\ Editing
    /\ \E text \in PasteTexts : Step("paste_text", paste_text(vs, text))
    /\ UNCHANGED << vault, tree, index, disk, arg, result >>

PasteTextAtReadCursor ==
    /\ Reading
    /\ \E text \in PasteTexts :
           Step("paste_text_at_read_cursor", paste_text_at_read_cursor(vs, text))
    /\ UNCHANGED << vault, tree, index, disk, arg, result >>

StartVisualSelection ==
    /\ Reading
    /\ Step("start_visual_selection", start_visual_selection(vs))
    /\ UNCHANGED << vault, tree, index, disk, arg, result >>

StartCharSelection ==
    /\ Editing
    /\ Step("start_char_selection", start_char_selection(vs))
    /\ UNCHANGED << vault, tree, index, disk, arg, result >>

UpdateSelectionHead ==
    /\ Running
    /\ Step("update_selection_head", update_selection_head(vs))
    /\ UNCHANGED << vault, tree, index, disk, arg, result >>

ClearSelection ==
    /\ Running
    /\ Step("clear_selection", clear_selection(vs))
    /\ UNCHANGED << vault, tree, index, disk, arg, result >>

DeleteSelectedText ==
    /\ Running
    /\ Step("delete_selected_text", delete_selected_text(vs))
    /\ UNCHANGED << vault, tree, index, disk, arg, result >>

MoveWordLeft ==
    /\ Editing
    /\ Step("move_word_left", move_word_left(vs))
    /\ UNCHANGED << vault, tree, index, disk, arg, result >>

MoveWordRight ==
    /\ Editing
    /\ Step("move_word_right", move_word_right(vs))
    /\ UNCHANGED << vault, tree, index, disk, arg, result >>

MoveReadCursorLeft ==
    /\ Reading
    /\ Step("move_read_cursor_left", move_read_cursor_left(vs))
    /\ UNCHANGED << vault, tree, index, disk, arg, result >>

MoveReadCursorRight ==
    /\ Reading
    /\ Step("move_read_cursor_right", move_read_cursor_right(vs))
    /\ UNCHANGED << vault, tree, index, disk, arg, result >>

MoveReadCursorUp ==
    /\ Reading
    /\ Step("move_read_cursor_up", move_read_cursor_up(vs))
    /\ UNCHANGED << vault, tree, index, disk, arg, result >>

MoveReadCursorDown ==
    /\ Reading
    /\ Step("move_read_cursor_down", move_read_cursor_down(vs))
    /\ UNCHANGED << vault, tree, index, disk, arg, result >>

MoveReadWordLeft ==
    /\ Reading
    /\ Step("move_read_word_left", move_read_word_left(vs))
    /\ UNCHANGED << vault, tree, index, disk, arg, result >>

MoveReadWordRight ==
    /\ Reading
    /\ Step("move_read_word_right", move_read_word_right(vs))
    /\ UNCHANGED << vault, tree, index, disk, arg, result >>

\* The vaults the backlink queries are run on: up to three notes, one of them
\* in a directory, each with one of a few texts that link to the others.
LinkTexts ==
    { << >>,
      <<"[", "[", "a", "]", "]">>,
      <<"[", "[", "b", "]", "]">>,
      <<"[", "[", "d", "/", "a", "]", "]">>,
      <<"[", "[", "A", ".", "m", "d", "]", "]">> }

LinkedPaths == {NotePath(<<"a">>), NotePath(<<"b">>), PathIn(<< <<"d">> >>, <<"a">>, md)}

LinkedVaults == UNION {[S -> LinkTexts] : S \in SUBSET LinkedPaths}

\* handle_viewer_read: the backlinks of the note shown, asked of the index.
IndexGetBacklinks ==
    /\ Running
    /\ \E p \in DOMAIN vault :
           /\ arg' = << p >>
           /\ result' = index_get_backlinks(index, p)
    /\ last' = "index_get_backlinks"
    /\ steps' = steps - 1
    /\ UNCHANGED << vs, vault, tree, index, disk, focus >>

\* The backlinks panel: the backlinks of the note shown, searched in the vault.
VaultGetBacklinks ==
    /\ Running
    /\ \E p \in DOMAIN vault : \E order \in IterationOrders(DOMAIN vault) :
           /\ arg' = << p >>
           /\ result' = vault_get_backlinks(vault, order, p)
    /\ last' = "vault_get_backlinks"
    /\ steps' = steps - 1
    /\ UNCHANGED << vs, vault, tree, index, disk, focus >>

\* The disks the vault is opened on: notes in the root and in directories,
\* some with names that start with a dot, and a file that is no note.
HiddenPaths ==
    { NotePath(<<"a">>),
      NotePath(<<".", "b">>),
      PathIn(<< <<"d">> >>, <<"a">>, md),
      PathIn(<< <<".", "d">> >>, <<"b">>, md),
      PathIn(<< >>, <<"a">>, <<"b">>) }

HiddenVaults == UNION {[S -> { << >> }] : S \in SUBSET HiddenPaths}

NewNames == { <<"b">>, <<".", "a">>, <<"a", "-", "b">> }

EditorTexts == { <<"#", "a">>, <<"[", "[", "b", "]", "]">> }

\* What the browser may have selected: nothing, or a visible entry.
Selections == {None} \cup {Some(visible_entries(tree)[i].path) :
                               i \in DOMAIN visible_entries(tree)}

ParentDirs ==
    { << >> } \cup {components(tree[i].path) : i \in {j \in DOMAIN tree : tree[j].is_dir}}

\* handle_create_dialog, Enter: create_note with a file name.
CreateNote ==
    /\ Running
    /\ \E parent_dir \in ParentDirs : \E filename \in NewNames : \E sel \in Selections :
           LET relative_path == PathIn(parent_dir, filename, md)
               title == replace_dashes(file_stem(relative_path))
               content == <<"#", " ">> \o title \o << NL, NL >>
               new == refresh_vault((relative_path :> content) @@ disk)
               s1 == refresh_viewer(vs, sel, new)
           IN  /\ disk' = (relative_path :> content) @@ disk
               /\ vault' = new.vault
               /\ tree' = new.tree
               /\ index' = new.index
               /\ Step("create_note",
                       IF is_visible(new.tree, relative_path)
                          /\ relative_path \in DOMAIN new.vault
                       THEN update_links(s1, new.vault[relative_path])
                       ELSE s1)
    /\ UNCHANGED << arg, result >>

\* handle_delete_dialog, confirmed: delete_entry of the selected entry.
DeleteEntry ==
    /\ Running
    /\ \E k \in DOMAIN visible_entries(tree) :
           LET entry == visible_entries(tree)[k]
               left == IF entry.is_dir
                       THEN {q \in DOMAIN disk :
                                ~(/\ Len(q.dir) >= Len(components(entry.path))
                                  /\ SubSeq(q.dir, 1, Len(components(entry.path)))
                                         = components(entry.path))}
                       ELSE DOMAIN disk \ {entry.path}
               files == [q \in left |-> disk[q]]
               new == refresh_vault(files)
               s1 == refresh_viewer(vs, Some(entry.path), new)
               visible == visible_entries(new.tree)
               new_idx == Min(k - 1, Len(visible) - 1)
           IN  /\ disk' = files
               /\ vault' = new.vault
               /\ tree' = new.tree
               /\ index' = new.index
               /\ Step("delete_entry",
                       IF /\ Len(visible) > 0
                          /\ ~visible[new_idx + 1].is_dir
                          /\ visible[new_idx + 1].path \in DOMAIN new.vault
                       THEN update_links(s1, new.vault[visible[new_idx + 1].path])
                       ELSE s1)
    /\ UNCHANGED << arg, result >>

\* App::open_in_editor: the editor leaves a text in the selected note's file.
OpenInEditor ==
    /\ Running
    /\ \E k \in DOMAIN visible_entries(tree) : \E text \in EditorTexts :
           LET entry == visible_entries(tree)[k]
               files == (entry.path :> text) @@ disk
               new == refresh_vault(files)
           IN  /\ ~entry.is_dir
               /\ disk' = files
               /\ vault' = new.vault
               /\ tree' = new.tree
               /\ index' = new.index
               /\ Step("open_in_editor", refresh_viewer(vs, Some(entry.path), new))
    /\ UNCHANGED << arg, result >>

NextVault == CreateNote \/ DeleteEntry \/ OpenInEditor

\* A vault whose one note has an empty text and a name of two bytes.
BackspaceFiles == NotePath(<<"é">>) :> << >>

\* A vault with titles in both cases: the notes a, b and W, all empty.
TitleFiles ==
    ( NotePath(<<"a">>) :> << >> ) @@ ( NotePath(<<"b">>) :> << >> ) @@
    ( NotePath(<<"W">>) :> << >> )

\* Vaults with notes at the root, in two directories and in a directory of a
\* directory.
TreePaths ==
    { NotePath(<<"a">>),
      PathIn(<< <<"b">> >>, <<"a">>, md),
      PathIn(<< <<"d">> >>, <<"a">>, md),
      PathIn(<< <<"d">>, <<"b">> >>, <<"a">>, md) }

TreeVaults == UNION {[S -> { << >> }] : S \in SUBSET TreePaths}

\* The paths toggle_dir is called with: those of the entries, and one of none.
TogglePaths == {tree[i].path : i \in DOMAIN tree} \cup {PathIn(<< >>, <<"w">>, << >>)}

\* handle_browser, Enter and Left on an entry: Vault::toggle_dir.
ToggleDir ==
    /\ Running
    /\ \E path \in TogglePaths :
           /\ tree' = toggle_dir(tree, path)
           /\ arg' = << path >>
    /\ Step("toggle_dir", vs)
    /\ UNCHANGED << vault, index, disk, result >>

\* The browser lists the tree: Vault::visible_entries.
VisibleEntries ==
    /\ Running
    /\ result' = visible_entries(tree)
    /\ Step("visible_entries", vs)
    /\ UNCHANGED << vault, tree, index, disk, arg >>

\* Focus::next
Focus_next(f) == IF f = "Browser" THEN "Viewer" ELSE "Browser"

\* A vault with a note at the root and one in a directory.
FocusFiles ==
    ( NotePath(<<"a">>) :> <<"a">> ) @@
    ( PathIn(<< <<"d">> >>, <<"a">>, md) :> << >> )

\* handle, Tab: the focus moves on; from the browser to the viewer, the
\* viewer is pointed at the selected entry when that is a note.
KeyTab ==
    /\ Running
    /\ focus' = Focus_next(focus)
    /\ \E sel \in Selections :
           LET loads == /\ focus = "Browser" /\ Focus_next(focus) = "Viewer"
                        /\ IsSome(sel) /\ Unwrap(sel) \in DOMAIN vault
           IN  /\ vs' = IF loads THEN update_links(vs, vault[Unwrap(sel)]) ELSE vs
               /\ last' = IF loads THEN "update_links" ELSE "focus_next"
    /\ steps' = steps - 1
    /\ UNCHANGED << vault, tree, index, disk, arg, result >>

\* handle_browser, Enter / l / Right: a directory is opened or closed, a note
\* is shown in the viewer, which gets the focus.
BrowserEnter ==
    /\ Running
    /\ focus = "Browser"
    /\ \E k \in DOMAIN visible_entries(tree) :
           LET entry == visible_entries(tree)[k]
           IN  IF entry.is_dir
               THEN /\ tree' = toggle_dir(tree, entry.path)
                    /\ last' = "toggle_dir"
                    /\ UNCHANGED << vs, focus >>
               ELSE /\ focus' = "Viewer"
                    /\ vs' = IF entry.path \in DOMAIN vault
                             THEN update_links(vs, vault[entry.path]) ELSE vs
                    /\ last' = "update_links"
                    /\ UNCHANGED tree
    /\ steps' = steps - 1
    /\ UNCHANGED << vault, index, disk, arg, result >>

\* handle, Ctrl-b: the backlinks panel gets the focus, or gives it back.
KeyCtrlB ==
    /\ Running
    /\ focus' = IF focus = "Backlinks" THEN "Browser" ELSE "Backlinks"
    /\ last' = "toggle_backlinks"
    /\ steps' = steps - 1
    /\ UNCHANGED << vs, vault, tree, index, disk, arg, result >>

\* handle_viewer_read, h / Left / Esc: back to the browser.
ViewerBack ==
    /\ Reading
    /\ focus = "Viewer"
    /\ focus' = "Browser"
    /\ last' = "focus_browser"
    /\ steps' = steps - 1
    /\ UNCHANGED << vs, vault, tree, index, disk, arg, result >>

\* The vaults the lookups are run on: a note with an accent in its name, one
\* in a directory and one whose stem ends with .md, each with a link or a tag.
LookupPaths ==
    { NotePath(<<"é">>),
      PathIn(<< <<"d">> >>, <<"a">>, md),
      NotePath(<<"a", ".", "m", "d">>) }

LookupTexts ==
    { << >>,
      <<"[", "[", "É", "]", "]">>,
      <<"[", "[", "d", "/", "a", "]", "]">>,
      <<"#", "a">>,
      <<"#", "É">>,
      <<"#", "b">>,
      <<"#", "b", " ", "#", "a">> }

LookupVaults == UNION {[S -> LookupTexts] : S \in SUBSET LookupPaths}

\* The targets of the links the viewer draws.
LookupTargets ==
    { << >>, <<"a">>, <<"A">>, <<"b">>, <<"é">>, <<"É">>, <<"d", "/", "a">>,
      <<"a", ".", "m", "d">>, <<"a", ".", "m", "d", ".", "m", "d">>,
      <<"É", ".", "m", "d">> }

\* The viewer draws a link: is it broken?  Vault::link_exists.
LinkExists ==
    /\ Running
    /\ \E target \in LookupTargets :
           /\ arg' = << target >>
           /\ result' = link_exists(vault, target)
    /\ last' = "link_exists"
    /\ steps' = steps - 1
    /\ UNCHANGED << vs, vault, tree, index, disk, focus >>

\* The tags the tag filter is asked for.
LookupTags == { << >>, <<"a">>, <<"A">>, <<"b">>, <<"é">>, <<"É">>, <<"w">> }

\* App::filter_by_tag: the notes with the tag.  Index::notes_with_tag.
NotesWithTag ==
    /\ Running
    /\ \E tag \in LookupTags :
           /\ arg' = << tag >>
           /\ result' = notes_with_tag(index, tag)
    /\ last' = "notes_with_tag"
    /\ steps' = steps - 1
    /\ UNCHANGED << vs, vault, tree, index, disk, focus >>

\* The tag filter opens on the list of the tags.  Index::all_tags.
AllTags ==
    /\ Running
    /\ result' = all_tags(index)
    /\ last' = "all_tags"
    /\ steps' = steps - 1
    /\ UNCHANGED << vs, vault, tree, index, disk, focus, arg >>

\* A vault in which one typed [ completes a link.
SaveFiles ==
    ( NotePath(<<"a">>) :> <<"[", "b", "]", "]">> ) @@
    ( NotePath(<<"b">>) :> <<"#", "a">> )

\* The texts made of at most n of the given pieces.
RECURSIVE TextsOf(_, _)
TextsOf(pieces, n) ==
    IF n = 0 THEN { << >> }
    ELSE LET shorter == TextsOf(pieces, n - 1)
         IN  shorter \cup {piece \o text : piece \in pieces, text \in shorter}

LinkPieces == { <<"[", "[">>, <<"]", "]">>, <<"]">>, <<"|">>, <<" ">>, <<"a">>, <<"é">> }

TagPieces == { <<"#">>, <<" ">>, <<"a">>, <<"A">>, <<"-">>, <<"[">>, <<"é">> }

\* The note of the specification's scenario.
ScenarioText ==
    <<"#", " ", "H", "e", "l", "l", "o", NL, NL, "S", "e", "e", " ",
      "[", "[", "W", "o", "r", "l", "d", "|", "t", "h", "e", " ", "w", "o", "r", "l", "d",
      "]", "]", " ", "a", "n", "d", " ",
      "#", "p", "r", "o", "j", "e", "c", "t", "/", "x", ".", NL>>

\* Vault::open and reload_note: a file's text is parsed into a Note.
FromFile ==
    /\ Running
    /\ result' = from_file(NotePath(<<"a">>), arg[1])
    /\ last' = "from_file"
    /\ steps' = steps - 1
    /\ UNCHANGED << vs, vault, tree, index, disk, focus, arg >>

\* The finder and the autocomplete popup: is the query found in the text?
FuzzyMatch ==
    /\ Running
    /\ result' = fuzzy_match(arg[1], arg[2])
    /\ last' = "fuzzy_match"
    /\ steps' = steps - 1
    /\ UNCHANGED << vs, vault, tree, index, disk, focus, arg >>

\* The keys of an edit session that only move the cursor, and the operations
\* that begin and end the session.
NextMotion ==
    \/ LoadNote \/ KeyI \/ KeyLeft \/ KeyRight \/ KeyUp \/ KeyDown
    \/ KeyHome \/ KeyEnd \/ MoveWordLeft \/ MoveWordRight \/ KeyEsc

\* The key events that change the files of the vault, and what an edit takes.
NextSave ==
    \/ LoadNote \/ KeyI \/ KeyChar \/ KeyEsc
    \/ CreateNote \/ DeleteEntry \/ OpenInEditor

\* Typing, accepting a completion and backspace.
NextBackspace == LoadNote \/ KeyI \/ KeyChar \/ KeyEnter \/ KeyBackspace

\* Typing and backspace, each followed by the refresh of the popup.
NextComplete == LoadNote \/ KeyI \/ KeyChar \/ KeyBackspace

NextTree == ToggleDir \/ VisibleEntries

\* The keys that move the focus, open a note and edit it.
NextFocus ==
    \/ KeyTab \/ BrowserEnter \/ KeyCtrlB \/ ViewerBack
    \/ KeyI \/ KeyChar \/ KeyEsc

NextLookup == LinkExists \/ NotesWithTag \/ AllTags \/ IndexGetBacklinks

NextParse == FromFile

NextMatch == FuzzyMatch

NextIndex == IndexGetBacklinks \/ VaultGetBacklinks

\* The keys handler.rs binds.
NextKeys ==
    \/ LoadNote \/ KeyI \/ KeyChar \/ KeyEnter \/ KeyBackspace \/ KeyDelete
    \/ KeyLeft \/ KeyRight \/ KeyUp \/ KeyDown \/ KeyHome \/ KeyEnd
    \/ KeyCtrlN \/ KeyCtrlP \/ KeyEsc

\* The calls of Read mode.
NextRead ==
    \/ LoadNote \/ Undo \/ Redo \/ PasteTextAtReadCursor
    \/ StartVisualSelection \/ UpdateSelectionHead \/ ClearSelection
    \/ DeleteSelectedText
    \/ MoveReadCursorLeft \/ MoveReadCursorRight \/ MoveReadCursorUp
    \/ MoveReadCursorDown \/ MoveReadWordLeft \/ MoveReadWordRight

\* The calls that make and delete a character selection.
NextSelect ==
    \/ LoadNote \/ KeyI \/ KeyLeft \/ KeyRight \/ KeyDown \/ KeyEnd
    \/ StartCharSelection \/ UpdateSelectionHead \/ DeleteSelectedText

Next ==
    \/ LoadNote \/ KeyI \/ KeyChar \/ KeyEnter \/ KeyBackspace \/ KeyDelete
    \/ KeyLeft \/ KeyRight \/ KeyUp \/ KeyDown \/ KeyHome \/ KeyEnd
    \/ KeyCtrlN \/ KeyCtrlP \/ KeyEsc
    \/ Undo \/ Redo \/ PasteText \/ PasteTextAtReadCursor
    \/ StartVisualSelection \/ StartCharSelection \/ UpdateSelectionHead
    \/ ClearSelection \/ DeleteSelectedText
    \/ MoveWordLeft \/ MoveWordRight
    \/ MoveReadCursorLeft \/ MoveReadCursorRight \/ MoveReadCursorUp
    \/ MoveReadCursorDown \/ MoveReadWordLeft \/ MoveReadWordRight

Init == Start(MaxSteps)
InitKeys == Start(MaxKeys)
InitRead == Start(MaxReadOps)
InitSelect == Start(MaxSelectOps)
InitIndex == \E files \in LinkedVaults : StartOn(files, MaxQueries)
InitVault == \E files \in HiddenVaults : StartOn(files, MaxVaultOps)
InitMotion ==
    \E text \in TextsOf({<<"a">>, <<"é">>, <<" ">>, <<NL>>}, MaxNoteLen) :
        StartOn(NotePath(<<"a">>) :> text, MaxMotions)
InitBackspace == StartOn(BackspaceFiles, MaxBackspaceKeys)
InitComplete == StartOn(TitleFiles, MaxCompleteKeys)
InitTree == \E files \in TreeVaults : StartOn(files, MaxToggles)
InitLookup == \E files \in LookupVaults : StartOn(files, MaxLookups)
InitFocus == StartOn(FocusFiles, MaxFocusKeys)
InitSave == StartOn(SaveFiles, MaxSaveOps)
InitParse ==
    \/ \E text \in TextsOf(LinkPieces, MaxTokens) : StartWith(<< >>, << text >>, MaxCalls)
    \/ \E text \in TextsOf(TagPieces, MaxTokens) : StartWith(<< >>, << text >>, MaxCalls)
    \/ StartWith(<< >>, << ScenarioText >>, MaxCalls)
InitLinks ==
    \E text \in TextsOf(LinkPieces, MaxLinkTokens) : StartWith(<< >>, << text >>, MaxCalls)
InitMatch ==
    \E query \in TextsOf({<<"a">>, <<"b">>}, MaxQueryLen) :
        \E text \in TextsOf({<<"a">>, <<"b">>}, MaxTextLen) :
            StartWith(<< >>, << query, text >>, MaxCalls)

Spec == Init /\ [][Next]_vars
SpecKeys == InitKeys /\ [][NextKeys]_vars
SpecRead == InitRead /\ [][NextRead]_vars
SpecSelect == InitSelect /\ [][NextSelect]_vars
SpecIndex == InitIndex /\ [][NextIndex]_vars
SpecVault == InitVault /\ [][NextVault]_vars
SpecMotion == InitMotion /\ [][NextMotion]_vars
SpecBackspace == InitBackspace /\ [][NextBackspace]_vars
SpecComplete == InitComplete /\ [][NextComplete]_vars
SpecTree == InitTree /\ [][NextTree]_vars
SpecLookup == InitLookup /\ [][NextLookup]_vars
SpecFocus == InitFocus /\ [][NextFocus]_vars
SpecSave == InitSave /\ [][NextSave]_vars
SpecParse == InitParse /\ [][NextParse]_vars
SpecLinks == InitLinks /\ [][NextParse]_vars
SpecMatch == InitMatch /\ [][NextMatch]_vars

----------------------------------------------------------------------------
(* Undo and redo: C1 - C4 *)

Top(stack) == stack[Len(stack)]

\* The operations C1 lists.
MutatingOps ==
    {"insert_char", "insert_newline", "delete_char", "delete_forward",
     "delete_selected_text", "paste_text", "autocomplete_accept"}

\* Those of them that save an undo snapshot before they change the buffer.
SnapshotOps ==
    {"insert_newline", "delete_char", "delete_forward",
     "delete_selected_text", "paste_text"}

UndoRestores(ops) ==
    (last' \in ops /\ vs'.content # vs.content)
        => /\ undo(vs').content = vs.content
           /\ undo(vs').cursor = vs.cursor

\* C1, as claimed: after any single mutating operation that changed the
\* buffer, undo() restores the content and the cursor of before the operation.
C1_UndoRestoresAnyMutation == [][UndoRestores(MutatingOps)]_vars

\* C1, amended: after any single snapshot-saving operation (insert_newline,
\* delete_char, delete_forward, delete_selected_text, paste_text) that changed
\* the buffer, undo() restores the content and the edit cursor of before it.
C1_UndoRestoresSnapshotOps == [][UndoRestores(SnapshotOps)]_vars

\* A snapshot-saving operation has just changed the buffer.
C1_Witness ==
    /\ last \in SnapshotOps
    /\ vs.undo_stack # << >>
    /\ Top(vs.undo_stack).content # vs.content

SameHistoryState(s, t) ==
    /\ s.content = t.content
    /\ s.cursor = t.cursor
    /\ s.undo_stack = t.undo_stack
    /\ s.redo_stack = t.redo_stack

\* C2: after an undo() that succeeded, redo() restores content, cursor, undo
\* stack and redo stack of before the undo; and undo() after a redo() that
\* succeeded restores the four of before the redo.
C2_UndoRedoInverse ==
    [][ /\ (last' = "undo" /\ undo_result(vs)) => SameHistoryState(redo(vs'), vs)
        /\ (last' = "redo" /\ redo_result(vs)) => SameHistoryState(undo(vs'), vs) ]_vars

\* A redo has brought back a buffer that differs from the one it replaced.
C2_Witness ==
    /\ last = "redo"
    /\ vs.undo_stack # << >>
    /\ Top(vs.undo_stack).content # vs.content

HistoryEmpty(s) ==
    /\ s.undo_stack = << >>
    /\ s.redo_stack = << >>
    /\ ~undo_result(s)
    /\ ~redo_result(s)
    /\ undo(s) = s
    /\ redo(s) = s

\* C3: right after update_links and right after exit_edit_mode both stacks
\* are empty, undo() and redo() return false and change nothing.
C3_NoUndoAcrossBoundary ==
    [][ /\ last' \in {"update_links", "exit_edit_mode"} => HistoryEmpty(vs')
        /\ last' = "exit_edit_mode" => HistoryEmpty(exit_edit_mode(vs)) ]_vars

\* Edit mode has been left with an edited buffer, which was saved.
C3_Witness ==
    /\ last = "exit_edit_mode"
    /\ vs.mode = "Read"
    /\ vault # open_vault

\* The operations that save a snapshot whatever the state.
AlwaysSnapshotOps == {"insert_newline", "paste_text", "paste_text_at_read_cursor"}

\* C4: both stacks hold at most max_undo_history snapshots, and a snapshot
\* saved on a full undo stack drops the oldest one and keeps the others in
\* order.
C4_HistoryBounded ==
    [][ /\ Len(vs'.undo_stack) <= max_undo_history
        /\ Len(vs'.redo_stack) <= max_undo_history
        /\ (last' \in AlwaysSnapshotOps /\ Len(vs.undo_stack) = max_undo_history)
               => vs'.undo_stack = Append(Tail(vs.undo_stack), EditorSnapshot(vs)) ]_vars

\* max_undo_history + 1 line breaks were entered at the start of a note right
\* after entering edit mode: the last one found the undo stack full.
C4_Witness ==
    /\ last = "insert_newline"
    /\ steps = MaxSteps - (max_undo_history + 3)
    /\ Len(vs.undo_stack) = max_undo_history
    /\ \E p \in DOMAIN vault :
           /\ vs.current_note_path = Some(p)
           /\ vs.content = [i \in 1..(max_undo_history + 1) |-> NL] \o vault[p].content


----------------------------------------------------------------------------
(* Index arithmetic, modes and autocomplete: C5 - C8 *)

\* C5: no operation addresses a line beyond the buffer, a character offset
\* beyond the buffer or a removal range whose start exceeds its end: no
\* reachable state is one in which a rope call was handed such an index.
C5_NoOutOfRangeIndex == ~vs.panicked

ReadModeMutators ==
    {"update_links", "paste_text_at_read_cursor", "delete_selected_text",
     "undo", "redo"}

C7_AcceptReplacesQuery ==
    [][(/\ last' = "autocomplete_accept"
        /\ IsSome(vs.autocomplete)
        /\ Unwrap(vs.autocomplete).matches # << >>)
           => LET ac == Unwrap(vs.autocomplete)
                  stem == file_stem(ac.matches[ac.selected + 1][1])
                  link == <<"[", "[">> \o stem \o <<"]", "]">>
                  trigger_idx == line_col_to_char_idx(vs.content,
                                     ac.trigger_pos.line, ac.trigger_pos.col)
                  cursor_idx == line_col_to_char_idx(vs.content,
                                    vs.cursor.line, vs.cursor.col)
              IN  /\ ~vs'.panicked
                  /\ trigger_idx <= cursor_idx
                  /\ vs'.content =
                         SubSeq(vs.content, 1, trigger_idx) \o link
                             \o SubSeq(vs.content, cursor_idx + 1, Len(vs.content))
                  /\ vs'.cursor = Pos(ac.trigger_pos.line,
                                      ac.trigger_pos.col + Len(link))
                  /\ vs'.dirty
                  /\ vs'.autocomplete = None]_vars

EditModeOps ==
    {"insert_char", "insert_newline", "delete_char", "delete_forward",
     "move_cursor_left", "move_cursor_right", "move_cursor_up",
     "move_cursor_down", "move_to_line_start", "move_to_line_end"}

\* C8: after every Edit-mode operation (insertion, deletion, newline, cursor
\* motion) an open session has the cursor on its trigger line and a query
\* without ]].
C8_SessionStaysOnTriggerLine ==
    (/\ vs.mode = "Edit"
     /\ last \in EditModeOps
     /\ IsSome(vs.autocomplete))
        => /\ vs.cursor.line = Unwrap(vs.autocomplete).trigger_pos.line
           /\ ~contains(Unwrap(vs.autocomplete).query, <<"]", "]">>)


----------------------------------------------------------------------------
(* Deleting a selection: C9, C10 *)

\* The lines of a buffer without their line breaks, the last one included
\* when it is empty: as many as len_lines counts.
BufferLines(r) == split_nl(r)

RECURSIVE JoinLines(_)
JoinLines(ls) ==
    IF ls = << >> THEN << >>
    ELSE IF Len(ls) = 1 THEN ls[1]
    ELSE ls[1] \o <<NL>> \o JoinLines(Tail(ls))

SnapshotPushed == vs'.undo_stack # << >> /\ Top(vs'.undo_stack) = EditorSnapshot(vs)

\* C9: deleting a Visual selection of lines s..e of an n-line buffer leaves
\* the lines 0..s-1 followed by the lines e+1..n-1, unchanged and in order;
\* a snapshot of the state before is pushed and the selection is cleared.
C9_VisualDeleteRemovesWholeLines ==
    [][(/\ last' = "delete_selected_text"
        /\ IsSome(vs.selection)
        /\ Unwrap(vs.selection).mode = "Visual"
        /\ Unwrap(vs.selection).anchor.line < len_lines(vs.content)
        /\ Unwrap(vs.selection).head.line < len_lines(vs.content))
           => LET sel == Unwrap(vs.selection)
                  s == Min(sel.anchor.line, sel.head.line)
                  e == sel.anchor.line + sel.head.line - s
                  ls == BufferLines(vs.content)
              IN  /\ vs'.content =
                         JoinLines(SubSeq(ls, 1, s) \o SubSeq(ls, e + 2, Len(ls)))
                  /\ SnapshotPushed
                  /\ vs'.selection = None]_vars

LexLe(p, q) == p.line < q.line \/ (p.line = q.line /\ p.col <= q.col)

\* What deleting the CharSelect selection of vs must have done; the cursor
\* goes to the start of the range always, or only when the range is not empty.
CharSelectDeleted(cursor_always_at_start) ==
    LET sel == Unwrap(vs.selection)
        start == IF LexLe(sel.anchor, sel.head) THEN sel.anchor ELSE sel.head
        end == IF LexLe(sel.anchor, sel.head) THEN sel.head ELSE sel.anchor
        start_idx == line_col_to_char_idx(vs.content, start.line, start.col)
        end_idx == line_col_to_char_idx(vs.content, end.line, end.col)
    IN  /\ start_idx <= end_idx
        /\ vs'.content = SubSeq(vs.content, 1, start_idx)
                             \o SubSeq(vs.content, end_idx + 1, Len(vs.content))
        /\ vs'.cursor = IF cursor_always_at_start \/ start_idx < end_idx
                        THEN start ELSE vs.cursor
        /\ vs'.selection = None
        /\ SnapshotPushed

CharSelectDelete ==
    /\ last' = "delete_selected_text"
    /\ IsSome(vs.selection)
    /\ Unwrap(vs.selection).mode = "CharSelect"

\* C10 as stated: deleting a CharSelect selection removes the half-open range
\* [start, end) of the anchor and head in (line, col) order, leaves the cursor
\* at start, clears the selection and pushes a snapshot of the state before.
C10_CharDeleteCursorAtStart ==
    [][CharSelectDelete => CharSelectDeleted(TRUE)]_vars

\* C10 amended: the same, but the cursor goes to start only when the range
\* holds a character; an empty range removes nothing and leaves the cursor
\* where it is.
C10_CharDeleteHalfOpenRange ==
    [][CharSelectDelete => CharSelectDeleted(FALSE)]_vars

\* A character selection was deleted, its text is gone, and the cursor is
\* where it was before: the head under the cursor was the start of the range.
C10_Witness ==
    /\ last = "delete_selected_text"
    /\ vs.mode = "Edit"
    /\ vs.selection = None
    /\ vs.undo_stack # << >>
    /\ Len(Top(vs.undo_stack).content) > Len(vs.content)
    /\ Top(vs.undo_stack).cursor = vs.cursor
    /\ vs.cursor # Pos(0, 0)


----------------------------------------------------------------------------
(* Backlinks: C11, C12 *)

Range(s) == {s[i] : i \in DOMAIN s}

\* A link target in normal form: lowercased, then without a final .md.
NormalTarget(target) ==
    LET lower == to_lowercase(target)
        n == Len(lower)
    IN  IF n >= 3 /\ SubSeq(lower, n - 2, n) = <<".", "m", "d">>
        THEN SubSeq(lower, 1, n - 3) ELSE lower

\* The names a link may call the note at path A by: its relative path without
\* the extension, and its file stem, both lowercased.
NamesOf(A) ==
    { to_lowercase(join_components(A.dir \o << A.stem >>)), to_lowercase(A.stem) }

LinksTo(B, A) ==
    \E i \in DOMAIN vault[B].links : NormalTarget(vault[B].links[i].target) \in NamesOf(A)

\* C11: Index::build(vault).get_backlinks(A) is ascending by path without
\* duplicates, never holds A, and holds exactly the notes B # A with a link
\* whose normal form is A's path without extension or A's stem, lowercased.
C11_IndexBacklinks ==
    last = "index_get_backlinks"
        => LET A == arg[1]
           IN  /\ \A i, j \in DOMAIN result : i < j => path_lt(result[i], result[j])
               /\ A \notin Range(result)
               /\ Range(result) = {B \in DOMAIN vault \ {A} : LinksTo(B, A)}

\* a.md without links and b.md holding [[a]]: the backlinks of a.md are [b.md].
C11_Witness ==
    /\ last = "index_get_backlinks"
    /\ disk = (NotePath(<<"a">>) :> << >>) @@
              (NotePath(<<"b">>) :> <<"[", "[", "a", "]", "]">>)
    /\ arg = << NotePath(<<"a">>) >>
    /\ result = << NotePath(<<"b">>) >>

\* C12: the paths of the notes Vault::get_backlinks(A) returns are the paths
\* Index::build(vault).get_backlinks(A) returns.
C12_BruteForceAgreesWithIndex ==
    last = "vault_get_backlinks"
        => {result[i].path : i \in DOMAIN result}
               = Range(index_get_backlinks(build(vault), arg[1]))


----------------------------------------------------------------------------
(* The vault and its tree: C13, C14 *)

\* C13: every key of vault.notes is the path of a tree entry that is no
\* directory.
C13_NotesAreTreeFiles ==
    \A p \in DOMAIN vault : \E i \in DOMAIN tree : tree[i].path = p /\ ~tree[i].is_dir

IsHidden(path) == \E i \in DOMAIN components(path) : Head(components(path)[i]) = "."

\* C14: no note and no tree entry has a path with a component that starts
\* with a dot.
C14_NoHiddenComponent ==
    /\ \A p \in DOMAIN vault : ~IsHidden(p)
    /\ \A i \in DOMAIN tree : ~IsHidden(tree[i].path)


----------------------------------------------------------------------------
(* The note parser and the matcher: C15 - C18 *)

\* The byte offset of the character at position k (from 1) of a text.
ByteOffset(text, k) == str_len(SubSeq(text, 1, k - 1))

\* The links of a text, read character by character from position k on: at a
\* [[ the link runs to the first ]] behind it; the text between is the target,
\* or the target and the alias around the first | ; a link with nothing before
\* the | or the ]] is none.
RECURSIVE LinksFrom(_, _)
LinksFrom(text, k) ==
    IF k >= Len(text) THEN << >>
    ELSE IF text[k] = "[" /\ text[k + 1] = "["
    THEN LET closes == {c \in (k + 2)..(Len(text) - 1) : text[c] = "]" /\ text[c + 1] = "]"}
         IN  IF closes = {} THEN << >>
             ELSE LET c == CHOOSE x \in closes : \A y \in closes : x <= y
                      inner == SubSeq(text, k + 2, c - 1)
                      pipes == {n \in DOMAIN inner : inner[n] = "|"}
                      pipe == CHOOSE x \in pipes : \A y \in pipes : x <= y
                      left == IF pipes = {} THEN inner ELSE SubSeq(inner, 1, pipe - 1)
                      right == IF pipes = {} THEN None
                               ELSE Some(trim(SubSeq(inner, pipe + 1, Len(inner))))
                  IN  (IF left = << >> THEN << >>
                       ELSE << [target |-> trim(left), display |-> right,
                                span |-> << ByteOffset(text, k), ByteOffset(text, c + 2) >>] >>)
                      \o LinksFrom(text, c + 2)
    ELSE LinksFrom(text, k + 1)

\* C15: the links of a text are its [[target]] and [[target|alias]] tokens in
\* order, with the target and the alias as written (trimmed) and the byte span
\* of the whole token; the spans of successive links do not overlap.
C15_LinksAsWritten ==
    last = "from_file"
        => /\ result.links = LinksFrom(arg[1], 1)
           /\ \A i, j \in DOMAIN result.links :
                  i < j => result.links[i].span[2] <= result.links[j].span[1]

\* C16: no link of a parsed note has an empty target.
C16_NoEmptyTarget ==
    last = "from_file" => \A i \in DOMAIN result.links : result.links[i].target # << >>

IsTagChar(c) == is_alphanumeric(c) \/ c \in {"-", "_", "/"}

\* The longest run of tag characters that starts at position k.
TagRun(text, k) ==
    LET ends == {e \in (k - 1)..Len(text) : \A n \in k..e : IsTagChar(text[n])}
        e == CHOOSE x \in ends : \A y \in ends : y <= x
    IN  SubSeq(text, k, e)

\* C17: the tags of a text are the lowercased longest runs of tag characters,
\* at least one long, behind a # that starts the text or follows a whitespace
\* character; lowercasing a tag again changes nothing.
C17_TagsAfterHash ==
    last = "from_file"
        => /\ result.tags =
                  {to_lowercase(TagRun(arg[1], k + 1)) :
                       k \in {h \in DOMAIN arg[1] :
                                 /\ arg[1][h] = "#"
                                 /\ h = 1 \/ is_whitespace(arg[1][h - 1])
                                 /\ TagRun(arg[1], h + 1) # << >>}}
           /\ \A tag \in result.tags : to_lowercase(tag) = tag

\* #A#a was parsed: the first # gives the tag a, the second, behind a letter,
\* gives none.
C17_Witness ==
    /\ last = "from_file"
    /\ arg = << <<"#", "A", "#", "a">> >>
    /\ result.tags = { <<"a">> }

IsSubsequence(query, text) ==
    \E f \in [1..Len(query) -> 1..Len(text)] :
        /\ \A i, j \in 1..Len(query) : i < j => f[i] < f[j]
        /\ \A i \in 1..Len(query) : text[f[i]] = query[i]

\* C18: fuzzy_match(query, text) is true exactly when query is a subsequence
\* of text; so it is true for the empty query and for every query that text
\* contains as a substring.
C18_FuzzyIsSubsequence ==
    last = "fuzzy_match"
        => /\ result = IsSubsequence(arg[1], arg[2])
           /\ arg[1] = << >> => result
           /\ contains(arg[2], arg[1]) => result

\* A query was found that the text holds only with other characters between.
C18_Witness ==
    /\ last = "fuzzy_match"
    /\ result = TRUE
    /\ arg[1] # << >>
    /\ ~contains(arg[2], arg[1])


----------------------------------------------------------------------------
(* The round trip through the buffer: C19 *)

\* C19: in an edit session of cursor motions only, what exit_edit_mode returns
\* is the content of the note that update_links loaded; the file written and
\* the note parsed again from it are the ones before the session.
C19_RoundTrip ==
    [][(last' = "exit_edit_mode" /\ IsSome(vs.current_note_path))
           => LET path == Unwrap(vs.current_note_path)
                  note == vault[path]
                  returned == exit_edit_mode_result(vs)
              IN  /\ ~vs'.panicked
                  /\ returned = note.content
                  /\ disk'[path] = note.content
                  /\ from_file(path, returned) = note
                  /\ vault'[path] = note]_vars

\* A session on the note `a`, line break, `é` has ended with the cursor moved
\* and the buffer shows the note again.
C19_Witness ==
    /\ last = "exit_edit_mode"
    /\ vs.mode = "Read"
    /\ vs.content = <<"a", NL, "é">>
    /\ disk[NotePath(<<"a">>)] = <<"a", NL, "é">>
    /\ steps = 0


----------------------------------------------------------------------------
(* The rebuild discipline: C20 *)

\* C20: the index is at every moment the one built from the vault; and when
\* Esc saves, the file holds what exit_edit_mode returned, the note of the
\* vault is the one parsed from that file, and the buffer shows that note.
C20_RebuildDiscipline ==
    /\ [](index = build(vault))
    /\ [][(last' = "exit_edit_mode" /\ IsSome(vs.current_note_path))
              => LET path == Unwrap(vs.current_note_path)
                 IN  /\ disk'[path] = exit_edit_mode_result(vs)
                     /\ path \in DOMAIN vault
                            => /\ vault'[path] = from_file(path, disk'[path])
                               /\ vs'.content = from_str(vault'[path].content)]_vars

\* Esc has saved the note a with the link [[b]] completed, and the index
\* lists a under the target b.
C20_Witness ==
    /\ last = "exit_edit_mode"
    /\ disk[NotePath(<<"a">>)] = <<"[", "[", "b", "]", "]">>
    /\ <<"b">> \in DOMAIN index.forward_links
    /\ NotePath(<<"a">>) \in index.forward_links[<<"b">>]


----------------------------------------------------------------------------
(* The dirty flag: C21 *)

\* The operations after which the buffer holds what a note load or
\* exit_edit_mode left in it.
CleanPoints == {"update_links", "exit_edit_mode"}

----------------------------------------------------------------------------
(* The mode transitions: C22, C23 *)

\* C22: enter_edit_mode sets the mode to Edit, copies the read cursor into the
\* edit cursor, clears the selection, pushes one snapshot of the content and
\* that cursor on the undo stack (the oldest one leaves a full stack), empties
\* the redo stack and leaves the content as it is.
C22_EnterEditMode ==
    [][last' = "enter_edit_mode"
           => /\ vs'.mode = "Edit"
              /\ vs'.cursor = vs.read_cursor
              /\ vs'.selection = None
              /\ vs'.content = vs.content
              /\ vs'.redo_stack = << >>
              /\ vs'.undo_stack # << >>
              /\ Top(vs'.undo_stack) = [content |-> vs.content, cursor |-> vs.read_cursor]
              /\ LET below == SubSeq(vs'.undo_stack, 1, Len(vs'.undo_stack) - 1)
                 IN  IF Len(vs.undo_stack) < max_undo_history
                     THEN below = vs.undo_stack
                     ELSE below = Tail(vs.undo_stack)]_vars

\* Edit mode was entered with the read cursor away from the edit cursor and
\* from the origin, over a history that held a snapshot already.
C22_Witness ==
    /\ last = "enter_edit_mode"
    /\ vs.mode = "Edit"
    /\ vs.cursor # Pos(0, 0)
    /\ Len(vs.undo_stack) = 2
    /\ vs.undo_stack[1].cursor # vs.cursor

\* C23: exit_edit_mode sets the mode to Read, clears the autocomplete session,
\* the selection and both stacks, leaves the content as it is and returns it.
C23_ExitEditMode ==
    [][last' = "exit_edit_mode"
           => LET s == exit_edit_mode(vs)
              IN  /\ s.mode = "Read"
                  /\ s.autocomplete = None
                  /\ s.selection = None
                  /\ s.undo_stack = << >>
                  /\ s.redo_stack = << >>
                  /\ s.content = vs.content
                  /\ exit_edit_mode_result(vs) = vs.content
                  /\ vs'.mode = "Read"
                  /\ vs'.content = vs.content]_vars

\* Esc has left edit mode after an edit: nothing of the session is left and
\* the buffer holds the edited text.
C23_Witness ==
    /\ last = "exit_edit_mode"
    /\ vs.mode = "Read"
    /\ vs.autocomplete = None /\ vs.selection = None
    /\ vs.undo_stack = << >> /\ vs.redo_stack = << >>
    /\ IsSome(vs.current_note_path)
    /\ vs.content = disk[Unwrap(vs.current_note_path)]
    /\ vs.content # InitialFiles[Unwrap(vs.current_note_path)]


----------------------------------------------------------------------------
(* Typing and backspace: C24, C25 *)

\* The text with the piece put in before column col of line l (lines and
\* columns from 0), the column clamped to the line; behind the last line the
\* piece goes to the end of the text.
InsertedAt(text, l, col, piece) ==
    LET ls == BufferLines(text)
    IN  IF l >= Len(ls) THEN text \o piece
        ELSE LET k == Min(col, Len(ls[l + 1]))
             IN  JoinLines([ls EXCEPT ![l + 1] =
                               SubSeq(@, 1, k) \o piece \o SubSeq(@, k + 1, Len(@))])

\* C24: insert_char(c) puts c in at the cursor, the column clamped to the
\* line, moves the column on by one, sets dirty and leaves both stacks alone.
C24_InsertChar ==
    [][last' = "insert_char"
           => /\ \E c \in TypedChars :
                     vs'.content = InsertedAt(vs.content, vs.cursor.line, vs.cursor.col, <<c>>)
              /\ vs'.cursor = Pos(vs.cursor.line, vs.cursor.col + 1)
              /\ vs'.dirty
              /\ vs'.undo_stack = vs.undo_stack
              /\ vs'.redo_stack = vs.redo_stack]_vars

\* A character was typed with the cursor beyond the end of its line, over a
\* history that holds a snapshot.
C24_Witness ==
    /\ last = "insert_char"
    /\ vs.undo_stack # << >>
    /\ vs.cursor.line < Len(BufferLines(vs.content))
    /\ vs.cursor.col > Len(BufferLines(vs.content)[vs.cursor.line + 1])


RECURSIVE LinesLen(_)
LinesLen(ls) == IF ls = << >> THEN 0 ELSE Len(Head(ls)) + 1 + LinesLen(Tail(ls))

\* The number of characters before the position (l, col) of a text, the
\* column clamped to the line; the length of the text behind its last line.
CursorOffset(text, l, col) ==
    LET ls == BufferLines(text)
    IN  IF l >= Len(ls) THEN Len(text)
        ELSE LinesLen(SubSeq(ls, 1, l)) + Min(col, Len(ls[l + 1]))

WithoutCharAt(text, k) == SubSeq(text, 1, k - 1) \o SubSeq(text, k + 1, Len(text))

\* C25: backspace with the column above 0 pushes a snapshot, removes the
\* character before the cursor and takes one off the column; at column 0 of a
\* line below the first it pushes a snapshot, removes the line break before
\* the line and puts the cursor where the previous line ended; at (0, 0) it
\* changes nothing and pushes nothing.
C25_Backspace ==
    [][last' = "delete_char"
           => LET l == vs.cursor.line
                  col == vs.cursor.col
                  ls == BufferLines(vs.content)
                  k == CursorOffset(vs.content, l, col)
              IN  IF col > 0
                  THEN /\ SnapshotPushed
                       /\ k > 0
                       /\ vs'.content = WithoutCharAt(vs.content, k)
                       /\ vs'.cursor = Pos(l, col - 1)
                  ELSE IF l > 0
                  THEN /\ SnapshotPushed
                       /\ l < Len(ls)
                       /\ vs.content[k] = NL
                       /\ vs'.content = WithoutCharAt(vs.content, k)
                       /\ vs'.cursor = Pos(l - 1, Len(ls[l]))
                  ELSE /\ vs'.content = vs.content
                       /\ vs'.cursor = vs.cursor
                       /\ vs'.undo_stack = vs.undo_stack
                       /\ vs'.redo_stack = vs.redo_stack]_vars


----------------------------------------------------------------------------
(* Cursor motions: C26 *)

MotionOps ==
    {"move_cursor_left", "move_cursor_right", "move_cursor_up", "move_cursor_down",
     "move_to_line_start", "move_to_line_end", "move_word_left", "move_word_right",
     "move_read_cursor_left", "move_read_cursor_right", "move_read_cursor_up",
     "move_read_cursor_down", "move_read_word_left", "move_read_word_right"}

\* C26: no cursor motion, of the edit cursor or of the read cursor, changes
\* the content, the dirty flag, the undo stack or the redo stack.
C26_MotionsChangeNoText ==
    [][last' \in MotionOps
           => /\ vs'.content = vs.content
              /\ vs'.dirty = vs.dirty
              /\ vs'.undo_stack = vs.undo_stack
              /\ vs'.redo_stack = vs.redo_stack]_vars

\* The edit cursor was moved to the end of a line of a clean buffer whose
\* history holds a snapshot.
C26_Witness ==
    /\ last = "move_to_line_end"
    /\ vs.cursor.col > 0
    /\ ~vs.dirty
    /\ vs.undo_stack # << >>


----------------------------------------------------------------------------
(* The autocomplete session: C27 - C29 *)

\* The cursor of s is inside its line and the two characters before it are [[.
AfterBrackets(s) ==
    LET ls == BufferLines(s.content)
        l == s.cursor.line
        col == s.cursor.col
    IN  /\ l < Len(ls)
        /\ col >= 2
        /\ col <= Len(ls[l + 1])
        /\ SubSeq(ls[l + 1], col - 1, col) = <<"[", "[">>

\* C27: after an insertion or a deletion of a character (the join of two lines
\* by backspace included) that leaves the cursor right behind [[, a session is
\* open whose trigger is the position of that [[ and whose query is empty.
C27_SessionOpensAfterBrackets ==
    [][(/\ last' \in {"insert_char", "delete_char", "delete_forward"}
        /\ vs'.content # vs.content
        /\ AfterBrackets(vs'))
           => /\ IsSome(vs'.autocomplete)
              /\ Unwrap(vs'.autocomplete).trigger_pos
                     = Pos(vs'.cursor.line, vs'.cursor.col - 2)
              /\ Unwrap(vs'.autocomplete).query = << >>]_vars


\* The text of s between the end of the [[ of the open session and the cursor;
\* nothing if the cursor is not behind the [[.
TextToCursor(s) ==
    LET trigger == Unwrap(s.autocomplete).trigger_pos
        from == CursorOffset(s.content, trigger.line, trigger.col) + 2
        to == CursorOffset(s.content, s.cursor.line, s.cursor.col)
    IN  IF to > from THEN SubSeq(s.content, from + 1, to) ELSE << >>

\* C28: in Edit mode, the query of an open session is the text between the
\* [[ of its trigger and the cursor.
C28_QueryIsTextToCursor ==
    (vs.mode = "Edit" /\ IsSome(vs.autocomplete))
        => Unwrap(vs.autocomplete).query = TextToCursor(vs)


\* Does the title come before the other in the order of the popup: titles
\* whose lowercase form starts with the query first, then by lowercase form.
TitleBefore(a, b, query) ==
    LET IsPrefix(t) == Len(query) <= Len(t) /\ SubSeq(t, 1, Len(query)) = query
        la == to_lowercase(a)
        lb == to_lowercase(b)
    IN  \/ IsPrefix(la) /\ ~IsPrefix(lb)
        \/ IsPrefix(la) = IsPrefix(lb) /\ str_lt(la, lb)

\* C29: after the refresh of an open session the list holds notes whose
\* lowercased title the lowercased query matches, each once, ordered with the
\* titles that start with the query first and otherwise by lowercased title;
\* it is the first 10 of all such notes in that order, and the selection is 0.
C29_MatchesFilteredAndOrdered ==
    (last \in {"insert_char", "delete_char", "delete_forward"} /\ IsSome(vs.autocomplete))
        => LET ac == Unwrap(vs.autocomplete)
               query == to_lowercase(ac.query)
               matching == {p \in DOMAIN vault :
                               IsSubsequence(query, to_lowercase(vault[p].title))}
               listed == {ac.matches[i][1] : i \in DOMAIN ac.matches}
           IN  /\ listed \subseteq matching
               /\ \A i \in DOMAIN ac.matches :
                      ac.matches[i][2] = vault[ac.matches[i][1]].title
               /\ \A i, j \in DOMAIN ac.matches :
                      i < j => /\ ac.matches[i][1] # ac.matches[j][1]
                               /\ ~TitleBefore(ac.matches[j][2], ac.matches[i][2], query)
               /\ Len(ac.matches) = Min(Cardinality(matching), 10)
               /\ \A p \in matching \ listed : \A q \in listed :
                      ~TitleBefore(vault[p].title, vault[q].title, query)
               /\ ac.selected = 0


----------------------------------------------------------------------------
(* The tree of the browser: C30 *)

\* Is the entry d a directory that holds the entry e, directly or not?
IsAncestor(d, e) ==
    /\ d.is_dir
    /\ Len(components(d.path)) < Len(components(e.path))
    /\ SubSeq(components(e.path), 1, Len(components(d.path))) = components(d.path)

\* C30: visible_entries returns, in tree order, the entries that no collapsed
\* directory holds; toggle_dir(path) flips the expanded flag of the directory
\* entry with that path and nothing else, changes no entry for the path of a
\* file or of nothing, changes no note, and a second call undoes the first.
C30_TreeVisibility ==
    /\ [](last = "visible_entries"
              => result = SelectSeq(tree,
                              LAMBDA e : \A i \in DOMAIN tree :
                                             IsAncestor(tree[i], e) => tree[i].expanded))
    /\ [][last' = "toggle_dir"
              => /\ vault' = vault
                 /\ DOMAIN tree' = DOMAIN tree
                 /\ \A i \in DOMAIN tree :
                        tree'[i] = IF tree[i].path = arg'[1] /\ tree[i].is_dir
                                   THEN [tree[i] EXCEPT !.expanded = ~tree[i].expanded]
                                   ELSE tree[i]
                 /\ toggle_dir(tree', arg'[1]) = tree]_vars

\* The tree was listed with d collapsed and d/b expanded: d is shown, and
\* nothing of what d holds.
C30_Witness ==
    /\ last = "visible_entries"
    /\ \E i, j \in DOMAIN tree :
           /\ tree[i].is_dir /\ ~tree[i].expanded
           /\ tree[j].is_dir /\ tree[j].expanded /\ IsAncestor(tree[i], tree[j])
           /\ \E k \in DOMAIN result : result[k] = tree[i]
           /\ \A k \in DOMAIN result : ~IsAncestor(tree[i], result[k])
           /\ \E k \in DOMAIN tree : IsAncestor(tree[j], tree[k])
    /\ Len(result) < Len(tree)


----------------------------------------------------------------------------
(* Is a link broken?  C31 *)

\* A link target without one final .md.
WithoutMd(target) ==
    LET n == Len(target)
    IN  IF n >= 3 /\ SubSeq(target, n - 2, n) = <<".", "m", "d">>
        THEN SubSeq(target, 1, n - 3) ELSE target

SameIgnoringCase(a, b) == to_lowercase(a) = to_lowercase(b)

\* C31: link_exists(target) is true if and only if some note's file stem
\* equals, case-insensitively, the target without one final .md; the call
\* changes neither the vault, the tree, the index nor the disk.
C31_LinkExists ==
    /\ [](last = "link_exists"
              => (result <=> \E p \in DOMAIN vault :
                                SameIgnoringCase(p.stem, WithoutMd(arg[1]))))
    /\ [][last' = "link_exists"
              => /\ vault' = vault /\ tree' = tree
                 /\ index' = index /\ disk' = disk]_vars

\* The same with the letters compared as link_exists compares them: only
\* A to Z are folded.
C31_LinkExistsAscii ==
    last = "link_exists"
        => (result <=> \E p \in DOMAIN vault :
                           to_ascii_lowercase(p.stem) = to_ascii_lowercase(WithoutMd(arg[1])))


----------------------------------------------------------------------------
(* The index of the tags: C32 *)

\* C32: a note is among notes_with_tag(t) exactly when it has the tag
\* lowercase(t), every case variant of t gives the same answer, and all_tags
\* lists every tag of every note once, in ascending order.
C32_TagIndex ==
    /\ last = "notes_with_tag"
           => /\ \A p \in DOMAIN vault :
                     (IsSome(result) /\ p \in Unwrap(result))
                         <=> to_lowercase(arg[1]) \in vault[p].tags
              /\ IsSome(result) => Unwrap(result) \subseteq DOMAIN vault
              /\ \A t \in LookupTags :
                     to_lowercase(t) = to_lowercase(arg[1])
                         => notes_with_tag(index, t) = result
    /\ last = "all_tags"
           => /\ Range(result) = UNION {vault[p].tags : p \in DOMAIN vault}
              /\ \A i, j \in DOMAIN result : i < j => str_lt(result[i], result[j])

\* The tag was asked for in capitals; one note has it, written in capitals
\* too, and another note has another tag.
C32_Witness ==
    /\ last = "notes_with_tag"
    /\ arg = << <<"É">> >>
    /\ IsSome(result)
    /\ \E p \in Unwrap(result) : disk[p] = <<"#", "É">>
    /\ \E p \in DOMAIN vault : p \notin Unwrap(result) /\ vault[p].tags # {}


----------------------------------------------------------------------------
(* Backlinks and broken links: C38 *)

\* C38: when the index lists B among the backlinks of A because of a link of
\* B, link_exists answers true for the target of that link.
C38_BacklinkIsNotBroken ==
    last = "index_get_backlinks"
        => \A B \in Range(result) :
               \A i \in DOMAIN vault[B].links :
                   NormalTarget(vault[B].links[i].target) \in NamesOf(arg[1])
                       => link_exists(vault, vault[B].links[i].target)

\* The same for the links that name the note by its stem in ASCII letters.
C38_PlainStemLinks ==
    last = "index_get_backlinks"
        => \A B \in Range(result) :
               \A i \in DOMAIN vault[B].links :
                   to_ascii_lowercase(WithoutMd(vault[B].links[i].target))
                           = to_ascii_lowercase(arg[1].stem)
                       => link_exists(vault, vault[B].links[i].target)


----------------------------------------------------------------------------
(* A [[ that nothing closes: C33 *)

\* The reference scanner over the bytes of a text, from position k on: a [[
\* with a ]] behind it is a link that ends at the first such ]], and the scan
\* goes on behind that ]]; a [[ with no ]] behind it is plain text, and the
\* scan goes on right behind the [[.
RECURSIVE ResumingLinks(_, _)
ResumingLinks(bytes, k) ==
    IF k >= Len(bytes) THEN << >>
    ELSE IF bytes[k] = "[" /\ bytes[k + 1] = "["
    THEN LET closes == {c \in (k + 2)..(Len(bytes) - 1) :
                            bytes[c] = "]" /\ bytes[c + 1] = "]"}
         IN  IF closes = {} THEN ResumingLinks(bytes, k + 2)
             ELSE LET c == CHOOSE x \in closes : \A y \in closes : x <= y
                      inner == SubSeq(bytes, k + 2, c - 1)
                      pipes == {n \in DOMAIN inner : inner[n] = "|"}
                      pipe == CHOOSE x \in pipes : \A y \in pipes : x <= y
                      left == IF pipes = {} THEN inner ELSE SubSeq(inner, 1, pipe - 1)
                      right == IF pipes = {} THEN None
                               ELSE Some(trim(SubSeq(inner, pipe + 1, Len(inner))))
                  IN  (IF left = << >> THEN << >>
                       ELSE << [target |-> trim(left), display |-> right,
                                span |-> << k - 1, c + 1 >>] >>)
                      \o ResumingLinks(bytes, c + 2)
    ELSE ResumingLinks(bytes, k + 1)

\* Does a [[ of the text have no ]] behind it?
HasUnclosedLink(text) ==
    \E k \in 1..(Len(text) - 1) :
        /\ text[k] = "[" /\ text[k + 1] = "["
        /\ ~\E c \in (k + 2)..(Len(text) - 1) : text[c] = "]" /\ text[c + 1] = "]"

\* C33: for every text the links of the parsed note are those of the
\* reference scanner, which takes a [[ that nothing closes for plain text and
\* goes on right behind it; the links before such a [[ are all there.
C33_UnclosedLinkIsText ==
    last = "from_file" => result.links = ResumingLinks(as_bytes(arg[1]), 1)

\* A text with a link and, behind it, a [[ that nothing closes, was parsed:
\* the note has the one link.
C33_Witness ==
    /\ last = "from_file"
    /\ HasUnclosedLink(arg[1])
    /\ Len(result.links) = 1
    /\ result.links[1].span[2] < str_len(arg[1])


----------------------------------------------------------------------------
(* A new edit and the redo history: C34 *)

\* C34: after an operation other than undo and redo that changed the buffer
\* content, the redo stack is empty.
C34_EditClearsRedo ==
    [][(last' \in MutatingOps /\ vs'.content # vs.content)
           => vs'.redo_stack = << >>]_vars

\* The same for the operations that save an undo snapshot.
C34_SnapshotOpsClearRedo ==
    [][(last' \in SnapshotOps /\ vs'.content # vs.content)
           => vs'.redo_stack = << >>]_vars


----------------------------------------------------------------------------
(* The trigger of an open session: C35 *)

\* C35: whenever a session is open, its trigger position lies inside the
\* buffer and the two characters there are [[.
C35_TriggerIsBrackets ==
    (IsSome(vs.autocomplete) /\ ~vs.panicked)
        => LET trigger == Unwrap(vs.autocomplete).trigger_pos
               ls == BufferLines(vs.content)
           IN  /\ trigger.line < Len(ls)
               /\ trigger.col + 2 <= Len(ls[trigger.line + 1])
               /\ SubSeq(ls[trigger.line + 1], trigger.col + 1, trigger.col + 2)
                      = <<"[", "[">>


----------------------------------------------------------------------------
(* The word motions advance: C36 *)

\* The number of characters before the edit cursor.
EditOffset(s) == CursorOffset(s.content, s.cursor.line, s.cursor.col)

\* Every move_word_left from an offset above 0 ends at a smaller offset.
WordLeftAdvances ==
    [][(last' = "move_word_left" /\ EditOffset(vs) > 0)
           => EditOffset(vs') < EditOffset(vs)]_vars

\* C36: move_word_right from an offset before the end of the buffer ends at a
\* greater offset, and move_word_left from an offset above 0 at a smaller one.
C36_WordMotionAdvances ==
    /\ [][(last' = "move_word_right" /\ EditOffset(vs) < Len(vs.content))
              => EditOffset(vs') > EditOffset(vs)]_vars
    /\ WordLeftAdvances


----------------------------------------------------------------------------
(* The cursors stay inside the buffer: C37 *)

\* Is the position on a line of the text, and not behind the end of it?
InsideBuffer(text, pos) ==
    LET ls == BufferLines(text)
    IN  /\ pos.line < Len(ls)
        /\ pos.col <= Len(ls[pos.line + 1])

\* C37: once a note is loaded, the edit cursor and the read cursor are on a
\* line of the buffer and not behind the end of that line.
C37_CursorsInsideBuffer ==
    (IsSome(vs.current_note_path) /\ ~vs.panicked)
        => /\ InsideBuffer(vs.content, vs.cursor)
           /\ InsideBuffer(vs.content, vs.read_cursor)


----------------------------------------------------------------------------
(* An edit session is not discarded: C39 *)

\* C39: whenever a key points the viewer at a note (update_links), the
\* editor is in Read mode.
C39_LoadsOnlyInReadMode ==
    [][last' = "update_links" => vs.mode = "Read"]_vars

=============================================================================
